---- MODULE Spec2Model ----
(***************************************************************************)
(* Oelo Lights (Home Assistant custom integration): the pattern codec      *)
(* (pattern_utils.py), the pattern store (pattern_storage.py), the         *)
(* services (services.py), the config and options flows (config_flow.py)   *)
(* and the zone entity with its effect list and its command buffer         *)
(* (light.py).                                                             *)
(*                                                                         *)
(* Python values are modelled as follows.  A str is a TLA+ string.  An     *)
(* Optional[str] is a sequence: <<>> is None and <<s>> is the string s.    *)
(* A dict is a record (a function from its keys).  A list is a sequence.   *)
(***************************************************************************)
EXTENDS Integers, Sequences, FiniteSets, TLC

(***************************************************************************)
(* Python built-ins used by the code                                       *)
(***************************************************************************)

None == <<>>

Some(s) == <<s>>

\* bool(x) of an Optional[str]: None and "" are falsy
Truthy(o) == o # None /\ o[1] # ""

IsSpace(c) == c \in {" ", "\t", "\n", "\r"}

RECURSIVE LStrip(_)
LStrip(s) == IF Len(s) > 0 /\ IsSpace(SubSeq(s, 1, 1)) THEN LStrip(SubSeq(s, 2, Len(s))) ELSE s

RECURSIVE RStrip(_)
RStrip(s) == IF Len(s) > 0 /\ IsSpace(SubSeq(s, Len(s), Len(s))) THEN RStrip(SubSeq(s, 1, Len(s) - 1)) ELSE s

\* str.strip()
Strip(s) == RStrip(LStrip(s))

\* str.split(sep) for a one-character separator
RECURSIVE Split(_, _)
Split(s, sep) ==
    IF \E i \in 1..Len(s) : SubSeq(s, i, i) = sep
    THEN LET i == CHOOSE k \in 1..Len(s) :
                    /\ SubSeq(s, k, k) = sep
                    /\ \A j \in 1..(k - 1) : SubSeq(s, j, j) # sep
         IN  <<SubSeq(s, 1, i - 1)>> \o Split(SubSeq(s, i + 1, Len(s)), sep)
    ELSE <<s>>

Digits == {"0", "1", "2", "3", "4", "5", "6", "7", "8", "9"}

DigitVal(c) ==
    CASE c = "0" -> 0 [] c = "1" -> 1 [] c = "2" -> 2 [] c = "3" -> 3 [] c = "4" -> 4
      [] c = "5" -> 5 [] c = "6" -> 6 [] c = "7" -> 7 [] c = "8" -> 8 [] c = "9" -> 9

AllDigits(s) == Len(s) > 0 /\ \A i \in 1..Len(s) : SubSeq(s, i, i) \in Digits

RECURSIVE DigitsVal(_)
DigitsVal(s) == IF Len(s) = 0 THEN 0
                ELSE 10 * DigitsVal(SubSeq(s, 1, Len(s) - 1)) + DigitVal(SubSeq(s, Len(s), Len(s)))

\* int(s) succeeds: optional surrounding whitespace, optional sign, decimal digits
IsIntLit(s) ==
    LET t == Strip(s)
    IN  /\ Len(t) > 0
        /\ IF SubSeq(t, 1, 1) \in {"+", "-"} THEN AllDigits(SubSeq(t, 2, Len(t))) ELSE AllDigits(t)

\* int(s) where it succeeds
IntOf(s) ==
    LET t == Strip(s)
    IN  IF SubSeq(t, 1, 1) = "-" THEN 0 - DigitsVal(SubSeq(t, 2, Len(t)))
        ELSE IF SubSeq(t, 1, 1) = "+" THEN DigitsVal(SubSeq(t, 2, Len(t)))
        ELSE DigitsVal(t)

\* d.get(k, default)
Get(d, k, default) == IF k \in DOMAIN d THEN d[k] ELSE default

(***************************************************************************)
(* pattern_utils.py                                                        *)
(***************************************************************************)

\* "_".join(parts)
RECURSIVE JoinUnderscore(_)
JoinUnderscore(parts) ==
    IF Len(parts) = 0 THEN ""
    ELSE IF Len(parts) = 1 THEN parts[1]
    ELSE parts[1] \o "_" \o JoinUnderscore(Tail(parts))

\* a scan that gives up at the first triplet that does not parse
RECURSIVE FirstNonZeroRgb_stops_at_malformed(_, _)
FirstNonZeroRgb_stops_at_malformed(color_parts, i) ==
    IF i >= Len(color_parts) - 1 THEN ""
    ELSE IF ~(IsIntLit(color_parts[i]) /\ IsIntLit(color_parts[i + 1]) /\ IsIntLit(color_parts[i + 2]))
         THEN ""
         ELSE IF IntOf(color_parts[i]) # 0 \/ IntOf(color_parts[i + 1]) # 0 \/ IntOf(color_parts[i + 2]) # 0
              THEN "_rgb" \o ToString(IntOf(color_parts[i])) \o "-" \o ToString(IntOf(color_parts[i + 1]))
                          \o "-" \o ToString(IntOf(color_parts[i + 2]))
              ELSE FirstNonZeroRgb_stops_at_malformed(color_parts, i + 3)

\* the loop of generate_pattern_id over the colour triplets: the _rgb part of
\* the first triplet, from index i on, that parses and is not (0,0,0)
RECURSIVE FirstNonZeroRgb(_, _)
FirstNonZeroRgb(color_parts, i) ==
    IF i >= Len(color_parts) - 1 THEN ""
    ELSE IF /\ IsIntLit(color_parts[i]) /\ IsIntLit(color_parts[i + 1]) /\ IsIntLit(color_parts[i + 2])
            /\ (IntOf(color_parts[i]) # 0 \/ IntOf(color_parts[i + 1]) # 0 \/ IntOf(color_parts[i + 2]) # 0)
         THEN "_rgb" \o ToString(IntOf(color_parts[i])) \o "-" \o ToString(IntOf(color_parts[i + 1]))
                     \o "-" \o ToString(IntOf(color_parts[i + 2]))
         ELSE FirstNonZeroRgb(color_parts, i + 3)

\* an id whose colour count is the number of triplets in colors
generate_pattern_id_triplet_count(url_params, plan_type) ==
    LET direction  == Get(url_params, "direction", "F")
        speed      == Get(url_params, "speed", "0")
        colors_str == Get(url_params, "colors", "")
        count      == Len(Split(colors_str, ",")) \div 3
        parts      == (IF direction # "" /\ direction # "0" /\ direction # "F"
                       THEN <<"dir" \o direction>> ELSE <<>>)
                      \o (IF speed # "" /\ speed # "0" /\ IsIntLit(speed) /\ IntOf(speed) # 0
                          THEN <<"spd" \o ToString(IntOf(speed))>> ELSE <<>>)
                      \o (IF plan_type # "spotlight" /\ count > 1
                          THEN <<ToString(count) \o "colors">> ELSE <<>>)
    IN  Get(url_params, "patternType", "unknown")
        \o (IF parts # <<>> THEN "_" \o JoinUnderscore(parts) ELSE "")
        \o (IF colors_str # "" THEN FirstNonZeroRgb(Split(colors_str, ","), 1) ELSE "")

generate_pattern_id(url_params, plan_type) ==
    LET pattern_type == Get(url_params, "patternType", "unknown")
        direction    == Get(url_params, "direction", "F")
        speed        == Get(url_params, "speed", "0")
        num_colors   == Get(url_params, "num_colors", "1")
        dir_part     == IF direction # "" /\ direction # "0" /\ direction # "F"
                        THEN <<"dir" \o direction>> ELSE <<>>
        spd_part     == IF speed # "" /\ speed # "0" /\ IsIntLit(speed) /\ IntOf(speed) # 0
                        THEN <<"spd" \o ToString(IntOf(speed))>> ELSE <<>>
        col_part     == IF plan_type # "spotlight" /\ num_colors # "" /\ IsIntLit(num_colors)
                           /\ IntOf(num_colors) > 1
                        THEN <<ToString(IntOf(num_colors)) \o "colors">> ELSE <<>>
        suffix_parts == dir_part \o spd_part \o col_part
        colors_str   == Get(url_params, "colors", "")
        rgb_part     == IF colors_str # "" THEN FirstNonZeroRgb(Split(colors_str, ","), 1) ELSE ""
        suffix       == IF suffix_parts # <<>> THEN "_" \o JoinUnderscore(suffix_parts) ELSE ""
    IN  pattern_type \o suffix \o rgb_part

\* The zone's pattern type as extract_pattern_from_zone_data reads it:
\* zone_data.get("pattern") or zone_data.get("patternType", "off")
ZonePatternType(zone_data) ==
    IF Get(zone_data, "pattern", "") # "" THEN zone_data["pattern"]
    ELSE Get(zone_data, "patternType", "off")

\* a check that captures a zone whatever its isOn says
ExtractIsNone_ignores_isOn(zone_data) ==
    \/ DOMAIN zone_data = {}
    \/ ZonePatternType(zone_data) = "off"

\* extract_pattern_from_zone_data returns None
ExtractIsNone(zone_data) ==
    \/ DOMAIN zone_data = {}
    \/ ZonePatternType(zone_data) = "off"
    \/ ~Get(zone_data, "isOn", FALSE)

\* extract_pattern_from_zone_data where it returns a record
extract_pattern_from_zone_data(zone_data, zone) ==
    LET pattern_type == ZonePatternType(zone_data)
        num_colors   == IF "numberOfColors" \in DOMAIN zone_data THEN ToString(zone_data["numberOfColors"])
                        ELSE IF "num_colors" \in DOMAIN zone_data THEN ToString(zone_data["num_colors"])
                        ELSE "1"
        colorStr     == Get(zone_data, "colorStr", "")
        colors_str   == IF colorStr = "" /\ "colors" \in DOMAIN zone_data THEN zone_data["colors"] ELSE colorStr
        url_params   == [patternType |-> pattern_type,
                         zones       |-> ToString(zone),
                         num_zones   |-> "1",
                         speed       |-> ToString(Get(zone_data, "speed", 0)),
                         gap         |-> ToString(Get(zone_data, "gap", 0)),
                         direction   |-> Get(zone_data, "direction", "F"),
                         num_colors  |-> num_colors,
                         colors      |-> IF colors_str # "" THEN colors_str ELSE "255,255,255",
                         other       |-> "0",
                         pause       |-> "0"]
        plan_type    == IF pattern_type = "spotlight" THEN "spotlight" ELSE "non-spotlight"
        pattern_id   == generate_pattern_id(url_params, plan_type)
    IN  [id              |-> pattern_id,
         name            |-> pattern_id,
         url_params      |-> url_params,
         plan_type       |-> plan_type,
         original_colors |-> IF plan_type = "spotlight" THEN Some(url_params.colors) ELSE None]

\* ",".join(parts)
RECURSIVE JoinComma(_)
JoinComma(parts) ==
    IF Len(parts) = 0 THEN ""
    ELSE IF Len(parts) = 1 THEN parts[1]
    ELSE parts[1] \o "," \o JoinComma(Tail(parts))

\* a join that separates the indices with ";"
RECURSIVE JoinIndices_semicolon(_)
JoinIndices_semicolon(parts) ==
    IF Len(parts) = 0 THEN ""
    ELSE IF Len(parts) = 1 THEN parts[1]
    ELSE parts[1] \o ";" \o JoinIndices_semicolon(Tail(parts))

\* ",".join(str(i) for i in indices) of normalize_led_indices
JoinIndices(parts) == JoinComma(parts)

\* sorted(set): the elements of a finite set of integers in ascending order
RECURSIVE Sorted(_)
Sorted(set) ==
    IF set = {} THEN <<>>
    ELSE LET m == CHOOSE x \in set : \A y \in set : x <= y
         IN  <<m>> \o Sorted(set \ {m})

\* the tokens of a comma-separated string that are not blank, stripped
Tokens(s) ==
    LET parts == Split(s, ",")
    IN  {Strip(parts[i]) : i \in {j \in 1..Len(parts) : Strip(parts[j]) # ""}}

normalize_led_indices(led_indices_str, max_leds) ==
    IF led_indices_str = "" \/ Strip(led_indices_str) = "" THEN ""
    ELSE IF \E part \in Tokens(led_indices_str) : ~IsIntLit(part)
         THEN ""    \* int(part) raises ValueError, caught around the whole loop
         ELSE LET indices == {IntOf(part) : part \in
                                {q \in Tokens(led_indices_str) : 1 <= IntOf(q) /\ IntOf(q) <= max_leds}}
                  sorted  == Sorted(indices)
              IN  JoinIndices([i \in 1..Len(sorted) |-> ToString(sorted[i])])

\* max(0, min(255, v))
Clamp(v) == IF v < 0 THEN 0 ELSE IF v > 255 THEN 255 ELSE v

\* original_rgb of modify_spotlight_plan_colors: the triplets of color_parts
\* from index i on (steps of three) that are complete and parse, clamped
RECURSIVE OriginalRgb(_, _)
OriginalRgb(color_parts, i) ==
    IF i > Len(color_parts) THEN <<>>
    ELSE IF /\ i + 2 <= Len(color_parts)
            /\ IsIntLit(color_parts[i]) /\ IsIntLit(color_parts[i + 1]) /\ IsIntLit(color_parts[i + 2])
         THEN <<<<Clamp(IntOf(color_parts[i])), Clamp(IntOf(color_parts[i + 1])),
                  Clamp(IntOf(color_parts[i + 2]))>>>> \o OriginalRgb(color_parts, i + 3)
         ELSE OriginalRgb(color_parts, i + 3)

\* a base colour taken from the last parsed triplet
BaseColor_last(original_rgb) == original_rgb[Len(original_rgb)]

\* base_color = original_rgb[0]
BaseColor(original_rgb) == original_rgb[1]

\* led_indices of modify_spotlight_plan_colors: the tokens that parse and lie
\* in 1..max_leds (a token that does not parse is skipped)
LedIndices(led_indices_str, max_leds) ==
    {IntOf(part) : part \in {q \in Tokens(led_indices_str) :
                                IsIntLit(q) /\ 1 <= IntOf(q) /\ IntOf(q) <= max_leds}}

\* num_colors is not used by the function
modify_spotlight_plan_colors(original_colors, led_indices_str, num_colors, max_leds) ==
    LET original_rgb == OriginalRgb(Split(original_colors, ","), 1)
        led_indices  == LedIndices(led_indices_str, max_leds)
    IN  IF original_rgb = <<>> THEN original_colors
        ELSE IF led_indices = {} THEN original_colors
        ELSE LET base_color == BaseColor(original_rgb)
                 modified   == [k \in 1..(3 * max_leds) |->
                                  IF ((k - 1) \div 3) + 1 \in led_indices
                                  THEN ToString(base_color[((k - 1) % 3) + 1])
                                  ELSE "0"]
             IN  JoinComma(modified)

\* urllib.parse.quote_plus of one character, for the characters that occur in
\* url parameters here: letters, digits and "_.-~" are kept, a space becomes
\* "+", a comma "%2C"
QuoteChar(c) ==
    IF c = " " THEN "+" ELSE IF c = "," THEN "%2C" ELSE c

RECURSIVE QuotePlus(_)
QuotePlus(s) == IF Len(s) = 0 THEN "" ELSE QuoteChar(SubSeq(s, 1, 1)) \o QuotePlus(SubSeq(s, 2, Len(s)))

\* the keys of url_params in the order extract_pattern_from_zone_data inserts them
UrlKeys ==
    <<"patternType", "zones", "num_zones", "speed", "gap", "direction", "num_colors",
      "colors", "other", "pause">>

\* urllib.parse.urlencode(url_params)
RECURSIVE UrlEncodeFrom(_, _)
UrlEncodeFrom(url_params, k) ==
    IF k > Len(UrlKeys) THEN ""
    ELSE UrlKeys[k] \o "=" \o QuotePlus(url_params[UrlKeys[k]])
         \o (IF k < Len(UrlKeys) THEN "&" ELSE "") \o UrlEncodeFrom(url_params, k + 1)

urlencode(url_params) == UrlEncodeFrom(url_params, 1)

\* build_pattern_url raises: int() of a num_colors that does not parse, or
\* split() of an original_colors that is None, both only on the spotlight path
BuildRaises(pattern, spotlight_plan_lights) ==
    /\ pattern.plan_type = "spotlight"
    /\ Truthy(spotlight_plan_lights)
    /\ (pattern.original_colors = None \/ ~IsIntLit(pattern.url_params.num_colors))

\* a build that keeps the zone the record was captured from
BuildUrlParams_keeps_zone(pattern, zone, spotlight_plan_lights, max_leds) ==
    IF pattern.plan_type = "spotlight" /\ Truthy(spotlight_plan_lights)
    THEN [pattern.url_params EXCEPT !.colors =
             modify_spotlight_plan_colors(pattern.original_colors[1], spotlight_plan_lights[1],
                                          IntOf(pattern.url_params.num_colors), max_leds)]
    ELSE pattern.url_params

\* url_params of build_pattern_url when it builds the URL
BuildUrlParams(pattern, zone, spotlight_plan_lights, max_leds) ==
    LET zoned == [pattern.url_params EXCEPT !.zones = ToString(zone), !.num_zones = "1"]
    IN  IF pattern.plan_type = "spotlight" /\ Truthy(spotlight_plan_lights)
        THEN [zoned EXCEPT !.colors =
                 modify_spotlight_plan_colors(pattern.original_colors[1], spotlight_plan_lights[1],
                                              IntOf(zoned.num_colors), max_leds)]
        ELSE zoned

\* a build that writes zone and colours into the record's own url_params
PatternAfterBuild_in_place(pattern, zone, spotlight_plan_lights, max_leds) ==
    [pattern EXCEPT !.url_params = BuildUrlParams(pattern, zone, spotlight_plan_lights, max_leds)]

\* the stored record after build_pattern_url: url_params is a copy
\* (pattern.get("url_params", {}).copy()) and its values are strings
PatternAfterBuild(pattern, zone, spotlight_plan_lights, max_leds) == pattern

\* build_pattern_url: whether it raises, the URL, and the record it was given
\* as the call leaves it
build_pattern_url(pattern, zone, ip_address, spotlight_plan_lights, max_leds) ==
    IF BuildRaises(pattern, spotlight_plan_lights)
    THEN [raises |-> TRUE, url |-> "", pattern |-> pattern]
    ELSE [raises |-> FALSE,
          url |-> "http://" \o ip_address \o "/setPattern?"
                  \o urlencode(BuildUrlParams(pattern, zone, spotlight_plan_lights, max_leds)),
          pattern |-> PatternAfterBuild(pattern, zone, spotlight_plan_lights, max_leds)]

(***************************************************************************)
(* const.py                                                                *)
(***************************************************************************)

MAX_PATTERNS == 200

DEFAULT_MAX_LEDS == 500

(***************************************************************************)
(* pattern_storage.py: PatternStorage.  A storage S is the pair of the     *)
(* instance's list self._patterns (mem) and the document its Store         *)
(* persists (disk: None before the first save, else {"patterns": [...]}).  *)
(* Every method returns the storage it leaves behind and its return value. *)
(***************************************************************************)

\* what Store.async_load returns for the document, as async_load reads it
DocPatterns(disk) ==
    IF disk # None /\ "patterns" \in DOMAIN disk[1] THEN disk[1]["patterns"] ELSE <<>>

\* async_load: self._patterns after the call (the list it returns is a
\* shallow copy of it, holding the same dict objects)
async_load(S) == IF S.mem = <<>> THEN DocPatterns(S.disk) ELSE S.mem

\* async_save: the document after the call
async_save(patterns) == Some([patterns |-> patterns])

\* the least element of a non-empty set of indices
First(indices) == CHOOSE i \in indices : \A j \in indices : i <= j

\* index of the first record whose id is pattern_id, 0 when there is none
FindById(patterns, pattern_id) ==
    LET hits == {i \in 1..Len(patterns) : patterns[i].id = pattern_id}
    IN  IF hits = {} THEN 0 ELSE First(hits)

\* index of the first record whose name is pattern_name, 0 when there is none
FindByName(patterns, pattern_name) ==
    LET hits == {i \in 1..Len(patterns) : patterns[i].name = pattern_name}
    IN  IF hits = {} THEN 0 ELSE First(hits)

\* a duplicate check that compares names where the code compares ids
ExistingIndex_by_name(patterns, pattern) ==
    IF pattern.id # "" THEN FindByName(patterns, pattern.name) ELSE 0

\* async_add_pattern's search for a record with the new record's id: the index
\* of the first one, 0 when there is none or the new record has no id
ExistingIndex(patterns, pattern) ==
    IF pattern.id # "" THEN FindById(patterns, pattern.id) ELSE 0

\* a limit check that lets the list grow one past the limit
LimitReached_off_by_one(patterns) == Len(patterns) > MAX_PATTERNS

\* async_add_pattern's limit check
LimitReached(patterns) == Len(patterns) >= MAX_PATTERNS

\* an update that overwrites the stored record with the new one
WithNameOf_whole_record(existing, pattern) == pattern

\* existing["name"] = pattern.get("name")
WithNameOf(existing, pattern) == [existing EXCEPT !.name = pattern.name]

async_add_pattern(S, pattern) ==
    LET patterns == async_load(S)
        i        == ExistingIndex(patterns, pattern)
    IN  IF i # 0
        THEN IF pattern.name # "" /\ pattern.name # patterns[i].name
             THEN LET updated == [patterns EXCEPT ![i] = WithNameOf(patterns[i], pattern)]
                  IN  [mem |-> updated, disk |-> async_save(updated), ret |-> TRUE]
             ELSE [mem |-> patterns, disk |-> S.disk, ret |-> FALSE]
        ELSE IF LimitReached(patterns)
             THEN [mem |-> patterns, disk |-> S.disk, ret |-> FALSE]
             ELSE LET appended == Append(patterns, pattern)
                  IN  [mem |-> appended, disk |-> async_save(appended), ret |-> TRUE]

\* async_get_pattern: the index in the list of the record it returns, 0 for None
GetIndex(patterns, pattern_id, pattern_name) ==
    IF Truthy(pattern_id) /\ FindById(patterns, pattern_id[1]) # 0
    THEN FindById(patterns, pattern_id[1])
    ELSE IF Truthy(pattern_name) THEN FindByName(patterns, pattern_name[1])
    ELSE 0

async_get_pattern(S, pattern_id, pattern_name) ==
    LET patterns == async_load(S)
        i        == GetIndex(patterns, pattern_id, pattern_name)
    IN  [mem |-> patterns, disk |-> S.disk, ret |-> IF i = 0 THEN None ELSE Some(patterns[i])]

\* a conflict check that compares the new name with ids
NameConflict_against_ids(patterns, i, new_name) ==
    \E j \in 1..Len(patterns) : patterns[j] # patterns[i] /\ patterns[j].id = new_name

\* async_rename_pattern's conflict check for the record at index i: a record
\* that differs from it (dict inequality) has the new name
NameConflict(patterns, i, new_name) ==
    \E j \in 1..Len(patterns) : patterns[j] # patterns[i] /\ patterns[j].name = new_name

\* a rename that looks the record up by name before id
async_rename_pattern_name_first(S, pattern_id, pattern_name, new_name) ==
    LET patterns == async_load(S)
        i        == IF Truthy(pattern_name) /\ FindByName(patterns, pattern_name[1]) # 0
                    THEN FindByName(patterns, pattern_name[1])
                    ELSE IF Truthy(pattern_id) THEN FindById(patterns, pattern_id[1]) ELSE 0
    IN  IF i = 0 \/ NameConflict(patterns, i, new_name)
        THEN [mem |-> patterns, disk |-> S.disk, ret |-> FALSE]
        ELSE LET renamed == [patterns EXCEPT ![i].name = new_name]
             IN  [mem |-> renamed, disk |-> async_save(renamed), ret |-> TRUE]

async_rename_pattern(S, pattern_id, pattern_name, new_name) ==
    LET patterns == async_load(S)
        i        == GetIndex(patterns, pattern_id, pattern_name)
    IN  IF i = 0
        THEN [mem |-> patterns, disk |-> S.disk, ret |-> FALSE]
        ELSE IF NameConflict(patterns, i, new_name)
             THEN [mem |-> patterns, disk |-> S.disk, ret |-> FALSE]
             ELSE LET renamed == [patterns EXCEPT ![i].name = new_name]
                  IN  [mem |-> renamed, disk |-> async_save(renamed), ret |-> TRUE]

\* list.remove(x): the list without its first element equal to x
RemoveFirstEqual(patterns, x) ==
    LET k == First({i \in 1..Len(patterns) : patterns[i] = x})
    IN  SubSeq(patterns, 1, k - 1) \o SubSeq(patterns, k + 1, Len(patterns))

\* the index of pattern_to_delete in async_delete_pattern, 0 for None
DeleteIndex(patterns, pattern_id, pattern_name) ==
    IF Truthy(pattern_id) THEN FindById(patterns, pattern_id[1])
    ELSE IF Truthy(pattern_name) THEN FindByName(patterns, pattern_name[1])
    ELSE 0

async_delete_pattern(S, pattern_id, pattern_name) ==
    LET patterns == async_load(S)
        i        == DeleteIndex(patterns, pattern_id, pattern_name)
    IN  IF i # 0
        THEN LET remaining == RemoveFirstEqual(patterns, patterns[i])
             IN  [mem |-> remaining, disk |-> async_save(remaining), ret |-> TRUE]
        ELSE [mem |-> patterns, disk |-> S.disk, ret |-> FALSE]

\* async_list_patterns
async_list_patterns(S) ==
    [mem |-> async_load(S), disk |-> S.disk, ret |-> async_load(S)]

(***************************************************************************)
(* services.py: what async_capture_pattern hands to the store              *)
(***************************************************************************)

\* async_capture_pattern, from the extraction to the record it stores: the
\* extracted record, renamed to the stripped effect name when one is given
CapturedPattern(zone_data, zone, pattern_name) ==
    LET pattern == extract_pattern_from_zone_data(zone_data, zone)
    IN  IF Truthy(pattern_name) THEN [pattern EXCEPT !.name = Strip(pattern_name[1])] ELSE pattern

(***************************************************************************)
(* The inputs the model draws from                                         *)
(***************************************************************************)

\* zone entities exist for zones 1..6 (light.py); the model uses 1..NumZones
NumZones == 2

Zones == 1..NumZones

\* one zone object of the controller's getController answer, for zone num
ZoneMarch(num) ==
    [num |-> num, isOn |-> TRUE, pattern |-> "march", speed |-> 3, gap |-> 0, direction |-> "R",
     numberOfColors |-> 6, colorStr |-> "255,92,0,255,92,0"]

ZoneSpot(num) ==
    [num |-> num, isOn |-> TRUE, pattern |-> "spotlight", speed |-> 0, gap |-> 0, direction |-> "F",
     numberOfColors |-> 2, colorStr |-> "0,0,0,10,20,30"]

ZoneOff(num) ==
    [num |-> num, isOn |-> FALSE, pattern |-> "off", speed |-> 0, gap |-> 0, direction |-> "F",
     numberOfColors |-> 1, colorStr |-> "0,0,0"]

\* a solid colour (i,0,0): MAX_PATTERNS distinct patterns to fill a store with
ZoneSolid(i) ==
    [num |-> 1, isOn |-> TRUE, pattern |-> "custom", speed |-> 0, gap |-> 0, direction |-> "F",
     numberOfColors |-> 1, colorStr |-> ToString(i) \o ",0,0"]

\* the zones that are on, as the controller may report them for zone num
OnReports(num) == {ZoneMarch(num), ZoneSpot(num)}

\* the store after n solid colours were captured from zone 1
Filled(n) == [i \in 1..n |-> extract_pattern_from_zone_data(ZoneSolid(i), 1)]

IdMarch == extract_pattern_from_zone_data(ZoneMarch(1), 1).id

IdSpot == extract_pattern_from_zone_data(ZoneSpot(1), 1).id

\* effect_name of a capture_effect call: absent, or a label (strip() applies)
EffectNames == {None, Some(" Porch ")}

\* pattern_id / pattern_name of a get, rename or delete call
IdArgs == {None, Some(IdMarch), Some("nosuch")}

NameArgs == {None, Some(IdSpot), Some("Porch")}

NewNames == {"Porch", "Party"}

(***************************************************************************)
(* State                                                                   *)
(***************************************************************************)

VARIABLES
    _patterns,        \* PatternStorage._patterns: of the one storage of Spec, and in
                      \* SpecSvc of the storage the zone entities share (hass.data)
    disk,             \* the persisted document of the controller's patterns
    call,             \* the last PatternStorage call: its arguments and return value
    pre,              \* the storage as that call found it
    tasks,            \* the service calls made so far, each a coroutine
    last,             \* the service call that took the last step (0: none)
    _cached_patterns, \* OeloLight._cached_patterns of a zone entity
    reloads,          \* _reload_and_update tasks created and not yet run
    handled,          \* oelo_lights_pattern_updated events the entity has handled
    util,             \* the last call of a pattern_utils function: arguments and result
    flow,             \* the config entry's options and the last step of a config or options flow
    requests,         \* the URLs the config flow has asked the controller for
    light             \* the zone entity (OeloLight) with its command buffer

storeVars == <<_patterns, disk, call, pre>>

svcVars == <<tasks, last, _cached_patterns, reloads, handled>>

envVars == <<flow, requests, light>>

vars == <<_patterns, disk, call, pre, tasks, last, _cached_patterns, reloads, handled, util,
          flow, requests, light>>

\* config_entry.data["ip_address"]
ip_address == "10.0.0.2"

\* config_entry.options as far as the model reads them
EntryOptions == [max_leds |-> 4, spotlight_plan_lights |-> "1,3"]

\* no flow step taken yet; the entry is the one set up for ip_address
NoFlow ==
    [step |-> "none", user_input |-> None, answer |-> "none", result |-> "none",
     errors |-> None, data |-> None, options |-> EntryOptions, configured |-> EntryOptions]

\* OeloLight.__init__ for zone 1 without a restored last command; futures,
\* debounce and callers are the asyncio futures, the _debounce_and_send tasks
\* and the turn_on/turn_off calls the entity has made
NoLight ==
    [_state |-> FALSE, _attr_available |-> TRUE, _intended_effect |-> None,
     _rgb_color |-> <<255, 255, 255>>, _last_successful_command |-> None,
     _pending_command_url |-> None, _pending_command_future |-> 0, _debounce_task |-> 0,
     futures |-> <<>>, debounce |-> <<>>, callers |-> <<>>, sent |-> <<>>,
     removal |-> "none"]

InitEnv ==
    /\ flow = NoFlow
    /\ requests = <<>>
    /\ light = NoLight

\* no pattern_utils function called yet
NoUtil == [fn |-> "none"]

Storage == [mem |-> _patterns, disk |-> disk]

NoCall == [op |-> "none", effect_name |-> None, pattern |-> None, pattern_id |-> None,
           pattern_name |-> None, new_name |-> "", ret |-> FALSE, found |-> None]

\* the patterns a storage holds, as async_list_patterns returns them
Listed(S) == async_load(S)

\* a fresh PatternStorage over no document, a nearly full one or a full one
Init ==
    /\ _patterns = <<>>
    /\ disk \in {None, async_save(Filled(MAX_PATTERNS - 1)), async_save(Filled(MAX_PATTERNS))}
    /\ call = NoCall
    /\ pre = [mem |-> <<>>, disk |-> None]
    /\ tasks = <<>>
    /\ last = 0
    /\ _cached_patterns = <<>>
    /\ reloads = 0
    /\ handled = 0
    /\ util = NoUtil
    /\ InitEnv

Returns(R, c) ==
    /\ _patterns' = R.mem
    /\ disk' = R.disk
    /\ call' = c
    /\ pre' = Storage
    /\ UNCHANGED <<svcVars, util, envVars>>

AddPattern ==
    \E zone \in Zones, name \in EffectNames :
      \E zone_data \in OnReports(zone) :
        LET pattern == CapturedPattern(zone_data, zone, name)
            R       == async_add_pattern(Storage, pattern)
        IN  Returns(R, [NoCall EXCEPT !.op = "add", !.effect_name = name,
                                      !.pattern = Some(pattern), !.ret = R.ret])

GetPattern ==
    \E pattern_id \in IdArgs, pattern_name \in NameArgs :
        LET R == async_get_pattern(Storage, pattern_id, pattern_name)
        IN  Returns(R, [NoCall EXCEPT !.op = "get", !.pattern_id = pattern_id,
                                      !.pattern_name = pattern_name,
                                      !.ret = (R.ret # None), !.found = R.ret])

RenamePattern ==
    \E pattern_id \in IdArgs, pattern_name \in NameArgs, new_name \in NewNames :
        LET R == async_rename_pattern(Storage, pattern_id, pattern_name, new_name)
        IN  Returns(R, [NoCall EXCEPT !.op = "rename", !.pattern_id = pattern_id,
                                      !.pattern_name = pattern_name, !.new_name = new_name,
                                      !.ret = R.ret])

DeletePattern ==
    \E pattern_id \in IdArgs, pattern_name \in NameArgs :
        LET R == async_delete_pattern(Storage, pattern_id, pattern_name)
        IN  Returns(R, [NoCall EXCEPT !.op = "delete", !.pattern_id = pattern_id,
                                      !.pattern_name = pattern_name, !.ret = R.ret])

Next == AddPattern \/ GetPattern \/ RenamePattern \/ DeletePattern

Spec == Init /\ [][Next]_vars

(***************************************************************************)
(* Properties of the store (under Spec)                                    *)
(***************************************************************************)

\* the list a call found and the list it left
Before == Listed(pre)

After == Listed(Storage)

\* the store is what it was before the last call: its list and its document
StoreUnchanged == After = Before /\ disk = pre.disk

DistinctIds(patterns) ==
    \A i, j \in 1..Len(patterns) : i # j => patterns[i].id # patterns[j].id

\* the record the last call resolves with async_get_pattern, as an index of Before
Target == GetIndex(Before, call.pattern_id, call.pattern_name)

\* C1: no two records of the store have the same id, in the list in memory and
\* in the persisted document, after any sequence of add, rename and delete calls
C1_NoDuplicateIds == DistinctIds(_patterns) /\ DistinctIds(DocPatterns(disk))

\* add_pattern was called with an id the store already held, and the store
\* holds exactly one record with that id
C1_Witness ==
    /\ call.op = "add"
    /\ FindById(Before, call.pattern[1].id) # 0
    /\ Cardinality({i \in 1..Len(After) : After[i].id = call.pattern[1].id}) = 1

\* C2: the store never holds more than MAX_PATTERNS records; add_pattern with
\* a new id on a store of MAX_PATTERNS records returns False and leaves the
\* list and the persisted document as they were
C2_Capacity ==
    /\ Len(_patterns) <= MAX_PATTERNS
    /\ Len(DocPatterns(disk)) <= MAX_PATTERNS
    /\ (/\ call.op = "add"
        /\ Len(Before) = MAX_PATTERNS
        /\ FindById(Before, call.pattern[1].id) = 0)
       => (call.ret = FALSE /\ StoreUnchanged)

C2_Witness ==
    /\ call.op = "add"
    /\ Len(Before) = MAX_PATTERNS
    /\ FindById(Before, call.pattern[1].id) = 0
    /\ call.ret = FALSE
    /\ Len(After) = MAX_PATTERNS

\* a record of Before other than the target has the requested new name
NameTaken ==
    \E j \in 1..Len(Before) : j # Target /\ Before[j].name = call.new_name

\* C3: rename_pattern to the name of a record other than the resolved target
\* returns False and leaves the store unchanged; renaming a record to its own
\* current name (no other record having it) is accepted
C3_RenameConflict ==
    (call.op = "rename" /\ Target # 0) =>
        /\ NameTaken => (call.ret = FALSE /\ StoreUnchanged)
        /\ (Before[Target].name = call.new_name /\ ~NameTaken) => call.ret = TRUE

C3_Witness ==
    /\ call.op = "rename"
    /\ Target # 0
    /\ NameTaken
    /\ Before[Target].name # call.new_name
    /\ call.ret = FALSE

\* C8: add_pattern with an id the store holds changes at most the name of the
\* record with that id, and returns True iff it changed the name
C8_AddExistingChangesOnlyName ==
    (call.op = "add" /\ FindById(Before, call.pattern[1].id) # 0) =>
        LET i == FindById(Before, call.pattern[1].id)
        IN  /\ Len(After) = Len(Before)
            /\ \A k \in 1..Len(Before) : k # i => After[k] = Before[k]
            /\ After[i] = [Before[i] EXCEPT !.name = After[i].name]
            /\ call.ret = (After[i].name # Before[i].name)
            /\ DocPatterns(disk) = After

\* the record handed to add_pattern had the id of a stored record, other
\* url_params and another name: the name was taken, the rest was not
C8_Witness ==
    /\ call.op = "add"
    /\ FindById(Before, call.pattern[1].id) # 0
    /\ LET i == FindById(Before, call.pattern[1].id)
       IN  /\ call.pattern[1].url_params # Before[i].url_params
           /\ call.ret = TRUE
           /\ After[i].name = call.pattern[1].name
           /\ After[i].url_params = Before[i].url_params
           /\ Len(Before) > 1

\* the list without its element i
Without(patterns, i) == SubSeq(patterns, 1, i - 1) \o SubSeq(patterns, i + 1, Len(patterns))

\* C9: delete_pattern removes a record iff get_pattern with the same arguments
\* returns one, removes exactly that record, and otherwise returns False and
\* leaves the store unchanged
C9_DeleteResolvesLikeGet ==
    call.op = "delete" =>
        /\ call.ret = (Target # 0)
        /\ Target # 0 => After = Without(Before, Target)
        /\ Target = 0 => StoreUnchanged

\* C10: a successful rename_pattern changes only the name of the resolved
\* record; the record is still found by its id and carries the new name; the
\* other records and the record count are unchanged
C10_RenameChangesOnlyName ==
    (call.op = "rename" /\ call.ret) =>
        /\ Target # 0
        /\ After = [Before EXCEPT ![Target].name = call.new_name]
        /\ GetIndex(After, Some(Before[Target].id), None) = Target
        /\ After[Target].name = call.new_name
        /\ DocPatterns(disk) = After

C10_Witness ==
    /\ call.op = "rename"
    /\ call.ret
    /\ Len(Before) > 1
    /\ Target # 0
    /\ Before[Target].name # call.new_name
    /\ After[Target].name = call.new_name

\* C7: a capture without effect name of a pattern whose id is already stored
\* leaves the stored record unchanged
C7_CaptureWithoutNameKeepsRecord ==
    (/\ call.op = "add"
     /\ call.effect_name = None
     /\ FindById(Before, call.pattern[1].id) # 0)
    => StoreUnchanged

(***************************************************************************)
(* services.py and light.py: the services as coroutines of the event loop. *)
(* A service call runs until it awaits; the awaits of a rename or delete   *)
(* call are the Store's load and the Store's save, so other calls run      *)
(* between its load and its save and between its save and its return.      *)
(* Every call builds a PatternStorage of its own; the zone entities share  *)
(* the one light.py's async_setup_entry put in hass.data.                  *)
(***************************************************************************)

\* service calls made in a behaviour
MaxCalls == 2

DEFAULT_SPOTLIGHT_PLAN_LIGHTS ==
    "1,2,3,4,8,9,10,11,21,22,23,24,25,35,36,37,38,59,60,61,62,67,68,69,70,93,94,95,112,113,114,115,132,133,134,135,153,154,155,156"

\* config_entry.options: spotlight_plan_lights (set, or empty) and max_leds
SvcLights == {"1,3", ""}

SvcMaxLeds == 4

\* the pattern the store holds when the services start, if it holds any
InitialPatterns ==
    <<extract_pattern_from_zone_data(ZoneMarch(1), 1),
      extract_pattern_from_zone_data(ZoneSpot(1), 1)>>

\* effect_id and effect_name of a rename or delete service call: the service
\* schema makes them exclusive, so at most one of the two is given
SvcLookups ==
    {<<Some(IdMarch), None>>, <<Some("nosuch"), None>>, <<None, Some(IdSpot)>>, <<None, None>>}

\* new_name of a rename service call, before the strip()
SvcNewNames == {" Porch ", "Party", ""}

\* a service call: its arguments, the list its PatternStorage read (seen) and
\* holds (storage), the id of the record it resolved (target), where the
\* coroutine stands (pc) and how it ended (result)
NoTask ==
    [svc |-> "none", zone |-> 0, zone_data |-> ZoneOff(1), effect_name |-> None,
     pattern_id |-> None, pattern_name |-> None, new_name |-> "",
     seen |-> <<>>, storage |-> <<>>, target |-> "", url |-> "", pc |-> "done",
     result |-> "pending", entity_id |-> "light.oelo_lights_zone_1"]

Calls == 1..Len(tasks)

\* OeloLight.effect_list of an available entity
effect_list ==
    LET named == {i \in 1..Len(_cached_patterns) : _cached_patterns[i].name # ""}
        Nth(k) == CHOOSE i \in named : Cardinality({j \in named : j <= i}) = k
    IN  [k \in 1..Cardinality(named) |-> _cached_patterns[Nth(k)].name]

\* the integration is set up and a zone entity is added: the entity has
\* loaded its patterns through the shared PatternStorage
InitSvc ==
    /\ disk \in {None, async_save(InitialPatterns)}
    /\ _patterns = async_load([mem |-> <<>>, disk |-> disk])
    /\ _cached_patterns = _patterns
    /\ call = NoCall
    /\ pre = [mem |-> <<>>, disk |-> None]
    /\ tasks = <<>>
    /\ last = 0
    /\ reloads = 0
    /\ handled = 0
    /\ util = NoUtil
    /\ InitEnv

Start(T) ==
    /\ Len(tasks) < MaxCalls
    /\ tasks' = Append(tasks, T)
    /\ last' = Len(tasks) + 1
    /\ UNCHANGED <<_patterns, disk, call, pre, _cached_patterns, reloads, handled, util, envVars>>

\* async_capture_pattern for the entity of a zone, what the controller would
\* report for the zone being zone_data.  aiohttp.ClientTimeout is a plain
\* data class, not an asynchronous context manager, so "async with
\* aiohttp.ClientTimeout(total=10)" raises TypeError before the controller is
\* asked; "except Exception" turns it into HomeAssistantError
CallCapture ==
    \E zone \in Zones, effect_name \in EffectNames :
      \E zone_data \in OnReports(zone) \cup {ZoneOff(zone)} :
        Start([NoTask EXCEPT !.svc = "capture", !.zone = zone, !.zone_data = zone_data,
                             !.effect_name = effect_name, !.seen = DocPatterns(disk),
                             !.pc = "done", !.result = "error"])

\* async_rename_pattern (services.py) up to its await of the storage
CallRename ==
    \E lookup \in SvcLookups, new_name \in SvcNewNames :
        LET invalid == \/ ~Truthy(lookup[1]) /\ ~Truthy(lookup[2])
                       \/ Strip(new_name) = ""
        IN  Start([NoTask EXCEPT !.svc = "rename", !.pattern_id = lookup[1],
                                 !.pattern_name = lookup[2], !.new_name = Strip(new_name),
                                 !.pc = IF invalid THEN "done" ELSE "loading",
                                 !.result = IF invalid THEN "error" ELSE "pending"])

\* async_delete_pattern (services.py) up to its await of the storage
CallDelete ==
    \E lookup \in SvcLookups :
        LET invalid == ~Truthy(lookup[1]) /\ ~Truthy(lookup[2])
        IN  Start([NoTask EXCEPT !.svc = "delete", !.pattern_id = lookup[1],
                                 !.pattern_name = lookup[2],
                                 !.pc = IF invalid THEN "done" ELSE "loading",
                                 !.result = IF invalid THEN "error" ELSE "pending"])

\* async_apply_pattern up to its await of the storage
CallApply ==
    \E zone \in Zones, lookup \in SvcLookups :
        LET invalid == ~Truthy(lookup[1]) /\ ~Truthy(lookup[2])
        IN  Start([NoTask EXCEPT !.svc = "apply", !.zone = zone, !.pattern_id = lookup[1],
                                 !.pattern_name = lookup[2],
                                 !.pc = IF invalid THEN "done" ELSE "getting",
                                 !.result = IF invalid THEN "error" ELSE "pending"])

\* the Store's load completes for the apply call t: async_get_pattern
\* returns; without a record the service raises, with one it builds the URL
\* and enters "async with aiohttp.ClientTimeout(total=timeout)", which raises
\* TypeError (not an aiohttp.ClientError, so it leaves the service as it is)
\* before the request is sent
ApplyGet(t) ==
    /\ tasks[t].pc = "getting"
    /\ \E spotlight_plan_lights_raw \in SvcLights :
        LET T     == tasks[t]
            S     == [mem |-> <<>>, disk |-> disk]
            read  == async_load(S)
            i     == GetIndex(read, T.pattern_id, T.pattern_name)
            lights == IF spotlight_plan_lights_raw # ""
                      THEN normalize_led_indices(spotlight_plan_lights_raw, SvcMaxLeds)
                      ELSE normalize_led_indices(DEFAULT_SPOTLIGHT_PLAN_LIGHTS, SvcMaxLeds)
            built == build_pattern_url(read[i], T.zone, ip_address, Some(lights), SvcMaxLeds)
        IN  tasks' = [tasks EXCEPT ![t] =
                        IF async_get_pattern(S, T.pattern_id, T.pattern_name).ret = None
                        THEN [T EXCEPT !.seen = read, !.storage = read,
                                       !.pc = "done", !.result = "error"]
                        ELSE [T EXCEPT !.seen = read,
                                       !.storage = [read EXCEPT ![i] = built.pattern],
                                       !.target = read[i].id, !.url = built.url,
                                       !.pc = "done", !.result = "error"]]
    /\ last' = t
    /\ UNCHANGED <<_patterns, disk, call, pre, _cached_patterns, reloads, handled, util, envVars>>

\* the Store's load completes for call t: its PatternStorage reads the
\* document and the method runs on to its async_save, or returns False and
\* the service raises
StoreLoad(t) ==
    /\ tasks[t].pc = "loading"
    /\ LET T    == tasks[t]
           S    == [mem |-> <<>>, disk |-> disk]
           read == async_load(S)
           R    == IF T.svc = "rename"
                   THEN async_rename_pattern(S, T.pattern_id, T.pattern_name, T.new_name)
                   ELSE async_delete_pattern(S, T.pattern_id, T.pattern_name)
           i    == IF T.svc = "rename"
                   THEN GetIndex(read, T.pattern_id, T.pattern_name)
                   ELSE DeleteIndex(read, T.pattern_id, T.pattern_name)
       IN  tasks' = [tasks EXCEPT ![t] =
                        [T EXCEPT !.seen = read, !.storage = R.mem,
                                  !.target = IF i = 0 THEN "" ELSE read[i].id,
                                  !.pc = IF R.ret THEN "saving" ELSE "done",
                                  !.result = IF R.ret THEN "pending" ELSE "error"]]
    /\ last' = t
    /\ UNCHANGED <<_patterns, disk, call, pre, _cached_patterns, reloads, handled, util, envVars>>

\* the Store's save of call t writes the document
StoreSave(t) ==
    /\ tasks[t].pc = "saving"
    /\ disk' = async_save(tasks[t].storage)
    /\ tasks' = [tasks EXCEPT ![t].pc = "saved"]
    /\ last' = t
    /\ UNCHANGED <<_patterns, call, pre, _cached_patterns, reloads, handled, util, envVars>>

\* a service that fires the event while its save is still to be written
Return_before_save(t) ==
    /\ tasks[t].pc = "saving"
    /\ tasks' = [tasks EXCEPT ![t].pc = "done", ![t].result = "ok"]
    /\ reloads' = reloads + 1
    /\ last' = t
    /\ UNCHANGED <<_patterns, disk, call, pre, _cached_patterns, handled, util, envVars>>

\* call t resumes after its save: the service fires
\* oelo_lights_pattern_updated and returns; the entity's listener creates a
\* _reload_and_update task
Return(t) ==
    /\ tasks[t].pc = "saved"
    /\ tasks' = [tasks EXCEPT ![t].pc = "done", ![t].result = "ok"]
    /\ reloads' = reloads + 1
    /\ last' = t
    /\ UNCHANGED <<_patterns, disk, call, pre, _cached_patterns, handled, util, envVars>>

\* _reload_and_update: _load_patterns through the shared PatternStorage
EntityReload ==
    /\ reloads > 0
    /\ _patterns' = async_load(Storage)
    /\ _cached_patterns' = async_load(Storage)
    /\ reloads' = reloads - 1
    /\ handled' = handled + 1
    /\ last' = 0
    /\ UNCHANGED <<disk, call, pre, tasks, util, envVars>>

NextSvc ==
    \/ CallCapture
    \/ CallRename
    \/ CallDelete
    \/ \E t \in Calls : StoreLoad(t)
    \/ \E t \in Calls : StoreSave(t)
    \/ \E t \in Calls : Return(t)
    \/ EntityReload

SpecSvc == InitSvc /\ [][NextSvc]_vars

\* apply_effect calls, concurrent with delete calls
NextApply ==
    \/ CallApply
    \/ CallDelete
    \/ \E t \in Calls : ApplyGet(t)
    \/ \E t \in Calls : StoreLoad(t)
    \/ \E t \in Calls : StoreSave(t)
    \/ \E t \in Calls : Return(t)

SpecApply == InitSvc /\ [][NextApply]_vars

(***************************************************************************)
(* Properties of the services (under SpecSvc)                              *)
(***************************************************************************)

Succeeded(t) == tasks[t].pc = "done" /\ tasks[t].result = "ok"

Quiescent == \A t \in Calls : tasks[t].pc = "done"

\* the non-empty names of the records of the persisted document
DocumentNames ==
    LET doc   == DocPatterns(disk)
        named == {i \in 1..Len(doc) : doc[i].name # ""}
        Nth(k) == CHOOSE i \in named : Cardinality({j \in named : j <= i}) = k
    IN  [k \in 1..Cardinality(named) |-> doc[Nth(k)].name]

\* C4: when all concurrent service calls have returned, every call that
\* reported success is reflected in the persisted document: a record a
\* successful delete removed is not in it, and a record a successful rename
\* renamed, if still stored, has the name a successful rename of it gave
C4_NoLostUpdate ==
    Quiescent =>
        \A t \in Calls :
            Succeeded(t) =>
                LET doc == DocPatterns(disk)
                    i   == FindById(doc, tasks[t].target)
                IN  /\ tasks[t].svc = "delete" => i = 0
                    /\ (tasks[t].svc = "rename" /\ i # 0) =>
                           \E u \in Calls : /\ Succeeded(u)
                                            /\ tasks[u].svc = "rename"
                                            /\ tasks[u].target = tasks[t].target
                                            /\ doc[i].name = tasks[u].new_name

\* C5: once a service call has succeeded and the entity has handled every
\* pattern_updated event, taking no call in flight, the entity's effect list
\* is the non-empty names of the persisted document
C5_EffectListFollowsDocument ==
    (Quiescent /\ handled > 0 /\ reloads = 0) => effect_list = DocumentNames

\* C6: a capture_effect call for a zone reported on with a pattern, whose id
\* is not stored, on a store below the limit, completes without error and
\* leaves the document with one more record, the extracted one under the
\* stripped effect name
C6_CaptureStoresExtractedRecord ==
    \A t \in Calls :
        (/\ last = t
         /\ tasks[t].svc = "capture"
         /\ tasks[t].pc = "done"
         /\ ~ExtractIsNone(tasks[t].zone_data)
         /\ FindById(tasks[t].seen,
                     extract_pattern_from_zone_data(tasks[t].zone_data, tasks[t].zone).id) = 0
         /\ Len(tasks[t].seen) < MAX_PATTERNS)
        => /\ tasks[t].result = "ok"
           /\ DocPatterns(disk) =
                  Append(tasks[t].seen,
                         CapturedPattern(tasks[t].zone_data, tasks[t].zone, tasks[t].effect_name))

\* C11: a step of an apply_effect call, build_pattern_url included, leaves the
\* persisted document as it was and the records of the call's storage as they
\* were read, whatever the record's plan type and the target zone
C11_ApplyReadOnly ==
    [][\A t \in DOMAIN tasks' :
          (last' = t /\ tasks'[t].svc = "apply")
          => (disk' = disk /\ tasks'[t].storage = tasks'[t].seen)]_vars

\* an apply of the stored spotlight pattern to zone 2 has built its URL, with
\* the colours reconstructed
C11_Witness ==
    \E t \in Calls :
        /\ tasks[t].svc = "apply"
        /\ tasks[t].pc = "done"
        /\ tasks[t].zone = 2
        /\ tasks[t].target = IdSpot
        /\ tasks[t].url = "http://" \o ip_address \o "/setPattern?"
               \o urlencode([InitialPatterns[2].url_params EXCEPT
                                 !.zones = "2", !.colors = "0,0,0,0,0,0,0,0,0,0,0,0"])

(***************************************************************************)
(* pattern_utils.py: the functions as they are called.  util holds the     *)
(* call: the function, its arguments and what it returned.  The functions  *)
(* keep no state, so a behaviour makes one call.                           *)
(***************************************************************************)

\* max_leds of a controller entry (DEFAULT_MAX_LEDS is 500): 1..MaxLeds here
MaxLeds == 4

PlanTypes == {"spotlight", "non-spotlight"}

\* colour strings as a controller reports them and a record stores them:
\* well-formed, with leading dark LEDs, out of range, with a token that does
\* not parse, with an incomplete last group, and without any triplet
ColorStrings ==
    {"255,92,0,255,92,0", "10,20,30", "0,0,0,10,20,30", "0,0,0", "300,-5,20",
     "x,0,0,1,2,3", "255,92,0,7", "1,2", "a,b,c", ""}

\* LED index strings as the options of an entry hold them
LedStrings == {"1,3", "4,1,1,2,3", "3,1", " 2 ,", "0,9", "1,x,2", "x", ""}

\* url_params given to generate_pattern_id
IdParams ==
    [patternType : {"march"}, direction : {"R", "F", "0", ""}, speed : {"3", "0", "03", "x"},
     num_colors : {"6", "1", "x"}, colors : ColorStrings]
    \cup {[patternType |-> "march"], [colors |-> "0,0,0,10,20,30"]}

\* zone objects with keys missing or under their other names: the type under
\* patternType, the colours under colors, the count under num_colors, no
\* colours, no isOn, no pattern, off with a pattern, on with pattern "off",
\* a type that is "spotlight" but for its case, and the empty object
SparseReports(num) ==
    {[num |-> num, isOn |-> TRUE, patternType |-> "fade", speed |-> 2],
     [num |-> num, isOn |-> TRUE, pattern |-> "march", colors |-> "9,9,9", num_colors |-> 3],
     [num |-> num, isOn |-> TRUE, pattern |-> "spotlight"],
     [num |-> num, pattern |-> "march", colorStr |-> "1,2,3"],
     [num |-> num, isOn |-> TRUE],
     [num |-> num, isOn |-> FALSE, pattern |-> "march", colorStr |-> "1,2,3"],
     [num |-> num, isOn |-> TRUE, pattern |-> "off", colorStr |-> "1,2,3"],
     [num |-> num, isOn |-> TRUE, pattern |-> "Spotlight", colorStr |-> "1,2,3"],
     <<>>}

\* zone objects of a getController answer for zone num
ZoneReports(num) ==
    OnReports(num) \cup {ZoneOff(num)}
    \cup {[ZoneSpot(num) EXCEPT !.colorStr = c] : c \in ColorStrings}
    \cup SparseReports(num)

\* stored records given to build_pattern_url
BuildPatterns ==
    {extract_pattern_from_zone_data(zone_data, 1) :
        zone_data \in {z \in ZoneReports(1) : ~ExtractIsNone(z)}}

\* spotlight_plan_lights as light.py and services.py pass it: None, or the
\* normalized option
BuildLights(max_leds) == {None} \cup {Some(normalize_led_indices(s, max_leds)) : s \in LedStrings}

InitUtil ==
    /\ _patterns = <<>>
    /\ disk = None
    /\ call = NoCall
    /\ pre = [mem |-> <<>>, disk |-> None]
    /\ tasks = <<>>
    /\ last = 0
    /\ _cached_patterns = <<>>
    /\ reloads = 0
    /\ handled = 0
    /\ util = NoUtil
    /\ InitEnv

GeneratePatternId ==
    \E url_params \in IdParams, plan_type \in PlanTypes :
        /\ util = NoUtil
        /\ util' = [fn |-> "generate_pattern_id", url_params |-> url_params, plan_type |-> plan_type,
                    out |-> generate_pattern_id(url_params, plan_type)]
        /\ UNCHANGED <<storeVars, svcVars, envVars>>

ExtractPattern ==
    \E zone \in Zones :
      \E zone_data \in ZoneReports(zone) :
        /\ util = NoUtil
        /\ util' = [fn |-> "extract_pattern_from_zone_data", zone_data |-> zone_data, zone |-> zone,
                    out |-> IF ExtractIsNone(zone_data) THEN None
                            ELSE Some(extract_pattern_from_zone_data(zone_data, zone))]
        /\ UNCHANGED <<storeVars, svcVars, envVars>>

NormalizeLedIndices ==
    \E led_indices_str \in LedStrings, max_leds \in 1..MaxLeds :
        /\ util = NoUtil
        /\ util' = [fn |-> "normalize_led_indices", led_indices_str |-> led_indices_str,
                    max_leds |-> max_leds,
                    out |-> normalize_led_indices(led_indices_str, max_leds)]
        /\ UNCHANGED <<storeVars, svcVars, envVars>>

ModifySpotlightPlanColors ==
    \E original_colors \in ColorStrings, led_indices_str \in LedStrings, max_leds \in 1..MaxLeds :
        /\ util = NoUtil
        /\ util' = [fn |-> "modify_spotlight_plan_colors", original_colors |-> original_colors,
                    led_indices_str |-> led_indices_str, max_leds |-> max_leds,
                    out |-> modify_spotlight_plan_colors(original_colors, led_indices_str, 1, max_leds)]
        /\ UNCHANGED <<storeVars, svcVars, envVars>>

BuildPatternUrl ==
    \E pattern \in BuildPatterns, zone \in Zones, max_leds \in 1..MaxLeds :
      \E spotlight_plan_lights \in BuildLights(max_leds) :
        /\ util = NoUtil
        /\ util' = [fn |-> "build_pattern_url", pattern |-> pattern, zone |-> zone,
                    spotlight_plan_lights |-> spotlight_plan_lights, max_leds |-> max_leds,
                    out |-> build_pattern_url(pattern, zone, ip_address, spotlight_plan_lights, max_leds)]
        /\ UNCHANGED <<storeVars, svcVars, envVars>>

NextUtil ==
    \/ GeneratePatternId
    \/ ExtractPattern
    \/ NormalizeLedIndices
    \/ ModifySpotlightPlanColors
    \/ BuildPatternUrl

SpecUtil == InitUtil /\ [][NextUtil]_vars

(***************************************************************************)
(* Properties of the pattern_utils functions (under SpecUtil)              *)
(***************************************************************************)

\* the complete groups of three tokens of a colour string, in order
Triplets(colors) ==
    LET parts == Split(colors, ",")
    IN  [k \in 1..(Len(parts) \div 3) |-> <<parts[3 * k - 2], parts[3 * k - 1], parts[3 * k]>>]

WellFormed(triplet) == \A c \in 1..3 : IsIntLit(triplet[c])

NonZero(triplet) == \E c \in 1..3 : IntOf(triplet[c]) # 0

\* a colour string is malformed: a token is not an integer, or the tokens do
\* not come in threes
Malformed(colors) ==
    LET parts == Split(colors, ",")
    IN  colors # "" /\ (Len(parts) % 3 # 0 \/ \E i \in 1..Len(parts) : ~IsIntLit(parts[i]))

\* the first triplet of a colour string with property P(_), None without one
FirstTriplet(colors, P(_)) ==
    LET T == Triplets(colors)
        K == {k \in 1..Len(T) : P(T[k])}
    IN  IF K = {} THEN None ELSE Some(T[First(K)])

IsValid(triplet) == WellFormed(triplet)

IsLit(triplet) == WellFormed(triplet) /\ NonZero(triplet)

\* a triplet as the three numbers an LED gets, each channel clamped
Channels(triplet) == [c \in 1..3 |-> ToString(Clamp(IntOf(triplet[c])))]

\* the lit indices the normalized option names
LitSet(led_indices_str, max_leds) ==
    LET n == normalize_led_indices(led_indices_str, max_leds)
        parts == Split(n, ",")
    IN  IF n = "" THEN {} ELSE {IntOf(parts[i]) : i \in 1..Len(parts)}

\* the three values a colour CSV holds for LED led
LedOf(csv, led) ==
    LET parts == Split(csv, ",")
    IN  <<parts[3 * led - 2], parts[3 * led - 1], parts[3 * led]>>

Dark == <<"0", "0", "0">>

\* C12: a capture of the same zone state from any other zone gives the same
\* record, and the stored url_params hold no zone
C12_ZoneAgnostic ==
    (util.fn = "extract_pattern_from_zone_data" /\ util.out # None) =>
        /\ \A z \in Zones :
              extract_pattern_from_zone_data([util.zone_data EXCEPT !.num = z], z) = util.out[1]
        /\ "zones" \notin DOMAIN util.out[1].url_params

\* the example of the id format
SpecExample ==
    [patternType |-> "march", direction |-> "R", speed |-> "3", num_colors |-> "6",
     colors |-> "255,92,0,255,92,0"]

IsSpecExample ==
    /\ util.fn = "generate_pattern_id"
    /\ util.url_params = SpecExample
    /\ util.plan_type = "non-spotlight"

\* C13 (as stated): generate_pattern_id of the march example returns
\* "march_dirR_spd3_2colors_rgb255-92-0"
C13_ExampleAsStated == IsSpecExample => util.out = "march_dirR_spd3_2colors_rgb255-92-0"

\* C13 (amended): generate_pattern_id of the march example returns
\* "march_dirR_spd3_6colors_rgb255-92-0": the colour count is num_colors
C13_Example == IsSpecExample => util.out = "march_dirR_spd3_6colors_rgb255-92-0"

C13_Witness == IsSpecExample /\ util.out # ""

\* the id the format describes, the _rgb part being Rgb
IdOfFormat(url_params, plan_type, Rgb) ==
    LET direction  == Get(url_params, "direction", "F")
        speed      == Get(url_params, "speed", "0")
        num_colors == Get(url_params, "num_colors", "1")
    IN  Get(url_params, "patternType", "unknown")
        \o (IF direction \notin {"", "0", "F"} THEN "_dir" \o direction ELSE "")
        \o (IF IsIntLit(speed) /\ IntOf(speed) # 0 THEN "_spd" \o ToString(IntOf(speed)) ELSE "")
        \o (IF plan_type # "spotlight" /\ IsIntLit(num_colors) /\ IntOf(num_colors) > 1
            THEN "_" \o ToString(IntOf(num_colors)) \o "colors" ELSE "")
        \o Rgb

RgbOf(triplet) ==
    "_rgb" \o ToString(IntOf(triplet[1])) \o "-" \o ToString(IntOf(triplet[2]))
           \o "-" \o ToString(IntOf(triplet[3]))

\* C14 (as stated): the id is patternType, _dir, _spd, _{n}colors and the _rgb
\* of the first triplet that is not (0,0,0), the _rgb part being omitted when
\* colors is empty, malformed or all zero
C14_IdFormatAsStated ==
    util.fn = "generate_pattern_id" =>
        LET colors == Get(util.url_params, "colors", "")
            lit    == FirstTriplet(colors, IsLit)
        IN  util.out = IdOfFormat(util.url_params, util.plan_type,
                                  IF colors = "" \/ Malformed(colors) \/ lit = None
                                  THEN "" ELSE RgbOf(lit[1]))

\* C14 (amended): as stated, but the _rgb part is that of the first complete
\* triplet of integers that is not (0,0,0): a triplet with a token that is not
\* an integer is skipped and an incomplete last group is ignored, and the
\* part is omitted only when no such triplet exists
C14_IdFormat ==
    util.fn = "generate_pattern_id" =>
        LET lit == FirstTriplet(Get(util.url_params, "colors", ""), IsLit)
        IN  util.out = IdOfFormat(util.url_params, util.plan_type,
                                  IF lit = None THEN "" ELSE RgbOf(lit[1]))

C14_Witness ==
    /\ util.fn = "generate_pattern_id"
    /\ util.plan_type = "non-spotlight"
    /\ "colors" \in DOMAIN util.url_params
    /\ util.url_params.colors = "x,0,0,1,2,3"
    /\ util.out = "march_dirR_spd3_6colors_rgb1-2-3"

\* C15: normalizing a normalized LED index string gives it back
C15_NormalizeIdempotent ==
    util.fn = "normalize_led_indices" =>
        normalize_led_indices(util.out, util.max_leds) = util.out

C15_Witness ==
    /\ util.fn = "normalize_led_indices"
    /\ util.led_indices_str = "4,1,1,2,3"
    /\ util.max_leds = 3
    /\ util.out = "1,2,3"

\* C16: the result is the ascending CSV, without duplicates, of exactly the
\* tokens that are integers in 1..max_leds
C16_NormalizeKeepsQualifying ==
    util.fn = "normalize_led_indices" =>
        LET qualifying == {IntOf(q) : q \in {t \in Tokens(util.led_indices_str) :
                                IsIntLit(t) /\ IntOf(t) \in 1..util.max_leds}}
            sorted     == Sorted(qualifying)
        IN  util.out = JoinComma([i \in 1..Len(sorted) |-> ToString(sorted[i])])

IsModifyExample ==
    /\ util.fn = "modify_spotlight_plan_colors"
    /\ util.original_colors = "10,20,30"
    /\ util.led_indices_str = "1,3"
    /\ util.max_leds = 4

C18_OutputLength ==
    util.fn = "modify_spotlight_plan_colors" =>
        LET parts == Split(util.out, ",")
        IN  /\ Len(parts) = 3 * util.max_leds
            /\ \A i \in 1..Len(parts) : IsIntLit(parts[i]) /\ IntOf(parts[i]) \in 0..255

\* C19: for a spotlight record whose original_colors has no valid triplet,
\* build_pattern_url does not raise and its URL carries the reconstruction
\* with the default base colour 255,255,255 at the lit indices
C19_DefaultBaseColour ==
    (/\ util.fn = "build_pattern_url"
     /\ util.pattern.plan_type = "spotlight"
     /\ Truthy(util.spotlight_plan_lights)
     /\ FirstTriplet(util.pattern.original_colors[1], IsValid) = None)
    => LET lit   == LitSet(util.spotlight_plan_lights[1], util.max_leds)
           white == [k \in 1..(3 * util.max_leds) |->
                        IF ((k - 1) \div 3) + 1 \in lit THEN "255" ELSE "0"]
       IN  /\ ~util.out.raises
           /\ util.out.url = "http://" \o ip_address \o "/setPattern?"
                  \o urlencode([util.pattern.url_params EXCEPT
                                    !.zones = ToString(util.zone), !.num_zones = "1",
                                    !.colors = JoinComma(white)])

\* C20: the lit LEDs carry the first non-zero triplet of original_colors
C20_BaseIsFirstNonZero ==
    (/\ util.fn = "modify_spotlight_plan_colors"
     /\ FirstTriplet(util.original_colors, IsLit) # None
     /\ LitSet(util.led_indices_str, util.max_leds) # {})
    => \A led \in LitSet(util.led_indices_str, util.max_leds) :
          LedOf(util.out, led) = Channels(FirstTriplet(util.original_colors, IsLit)[1])

\* urllib.parse.unquote_plus, for what QuotePlus produces
RECURSIVE Unquote(_)
Unquote(s) ==
    IF Len(s) = 0 THEN ""
    ELSE IF Len(s) >= 3 /\ SubSeq(s, 1, 3) = "%2C" THEN "," \o Unquote(SubSeq(s, 4, Len(s)))
    ELSE IF SubSeq(s, 1, 1) = "+" THEN " " \o Unquote(SubSeq(s, 2, Len(s)))
    ELSE SubSeq(s, 1, 1) \o Unquote(SubSeq(s, 2, Len(s)))

\* the query of a URL as its key/value pairs, in order, values decoded
QueryOf(url) ==
    LET pairs == Split(Split(url, "?")[2], "&")
    IN  [i \in 1..Len(pairs) |-> <<Split(pairs[i], "=")[1], Unquote(Split(pairs[i], "=")[2])>>]

\* the value of key k in a parsed query (the key occurs)
Param(query, k) == query[CHOOSE i \in 1..Len(query) : query[i][1] = k][2]

QueryKeys(query) == {query[i][1] : i \in 1..Len(query)}

ReportedType(zone_data) ==
    IF "pattern" \in DOMAIN zone_data /\ zone_data["pattern"] # "" THEN Some(zone_data["pattern"])
    ELSE IF "patternType" \in DOMAIN zone_data THEN Some(zone_data["patternType"])
    ELSE None

\* the colours a zone object reports, under colorStr or colors; None when it
\* reports none
ReportedColors(zone_data) ==
    IF "colorStr" \in DOMAIN zone_data /\ zone_data["colorStr"] # "" THEN Some(zone_data["colorStr"])
    ELSE IF "colors" \in DOMAIN zone_data /\ zone_data["colors"] # "" THEN Some(zone_data["colors"])
    ELSE None

\* C22: extract_pattern_from_zone_data returns None exactly when the zone is
\* off (isOn false or absent) or its pattern type is "off" or absent; else a
\* record named by its id, with the reported colours or "255,255,255", of
\* plan type spotlight iff the type is "spotlight", with original_colors the
\* colours for a spotlight plan and None otherwise
C22_Extract ==
    util.fn = "extract_pattern_from_zone_data" =>
        LET zd  == util.zone_data
            off == \/ ~("isOn" \in DOMAIN zd /\ zd["isOn"])
                   \/ ReportedType(zd) \in {None, Some("off")}
        IN  IF off THEN util.out = None
            ELSE /\ util.out # None
                 /\ util.out[1].name = util.out[1].id
                 /\ util.out[1].url_params.colors =
                        (IF ReportedColors(zd) = None THEN "255,255,255" ELSE ReportedColors(zd)[1])
                 /\ (util.out[1].plan_type = "spotlight") = (ReportedType(zd) = Some("spotlight"))
                 /\ util.out[1].plan_type \in {"spotlight", "non-spotlight"}
                 /\ util.out[1].original_colors =
                        (IF util.out[1].plan_type = "spotlight"
                         THEN Some(util.out[1].url_params.colors) ELSE None)

\* a spotlight zone without colours is captured with the default colours
C22_Witness ==
    /\ util.fn = "extract_pattern_from_zone_data"
    /\ util.out # None
    /\ util.out[1].plan_type = "spotlight"
    /\ "colorStr" \notin DOMAIN util.zone_data
    /\ util.out[1].original_colors = Some("255,255,255")

(***************************************************************************)
(* Further properties of the services (under SpecSvc) and of the store     *)
(* (under Spec)                                                            *)
(***************************************************************************)

\* C24: a step that fires oelo_lights_pattern_updated is taken by one capture,
\* rename or delete call whose save has completed and which ends in success;
\* the events fired are as many as the calls that succeeded, so a call that
\* failed fired none
C24_EventAfterSave ==
    /\ [](reloads + handled = Cardinality({t \in Calls : Succeeded(t)}))
    /\ [][reloads' > reloads =>
            \E t \in Calls :
                /\ tasks[t].pc = "saved"
                /\ tasks[t].svc \in {"capture", "rename", "delete"}
                /\ tasks'[t].pc = "done" /\ tasks'[t].result = "ok"
                /\ reloads' = reloads + 1
                /\ disk' = disk
                /\ \A u \in Calls \ {t} : tasks'[u] = tasks[u]]_vars

\* a rename has saved and fired its event, next to a call that failed
C24_Witness ==
    /\ reloads = 1
    /\ handled = 0
    /\ \E t \in Calls : Succeeded(t) /\ tasks[t].svc = "rename"
    /\ \E t \in Calls : tasks[t].pc = "done" /\ tasks[t].result = "error"

\* C25: no two stored records have the same name
C25_UniqueNames ==
    \A i, j \in 1..Len(_patterns) : i # j => _patterns[i].name # _patterns[j].name

\* the replay parameters of a record: its url_params but the zone
ReplayParams(pattern) ==
    [k \in DOMAIN pattern.url_params \ {"zones", "num_zones"} |-> pattern.url_params[k]]

\* C26: a capture whose replay parameters differ from those of a stored
\* capture has another id, and add_pattern stores it next to the first
C26_DistinctPatternsKept ==
    (util.fn = "extract_pattern_from_zone_data" /\ util.out # None) =>
        \A zone_data \in {z \in ZoneReports(util.zone) : ~ExtractIsNone(z)} :
            LET first  == util.out[1]
                second == extract_pattern_from_zone_data(zone_data, util.zone)
                R      == async_add_pattern([mem |-> <<first>>, disk |-> async_save(<<first>>)],
                                            second)
            IN  ReplayParams(second) # ReplayParams(first)
                => /\ second.id # first.id
                   /\ R.ret
                   /\ R.mem = <<first, second>>

(***************************************************************************)
(* config_flow.py: the user step of the config flow and the init step of   *)
(* the options flow.  flow holds the last step with its input, the         *)
(* controller's answer, the result of the step, and the entry's options.   *)
(***************************************************************************)

\* one part of a dotted quad as ipaddress reads it: one to three decimal
\* digits, no leading zero, at most 255
IsOctet(s) ==
    /\ AllDigits(s)
    /\ Len(s) <= 3
    /\ (Len(s) > 1 => SubSeq(s, 1, 1) # "0")
    /\ DigitsVal(s) <= 255

\* ipaddress.ip_address(ip) does not raise ValueError, for a string without
\* a colon (the inputs hold no IPv6 address)
IsIPv4(ip) ==
    LET parts == Split(ip, ".")
    IN  Len(parts) = 4 /\ \A i \in 1..4 : IsOctet(parts[i])

\* what the controller does with GET /getController: it answers 200 with a
\* JSON list, 200 with a JSON object, 200 with text that is no JSON, 404, or
\* the connection is refused, or nothing comes within the timeout
Answers == {"200_list", "200_object", "200_text", "404", "refused", "timeout"}

\* a validation that takes any 200 answer for a controller
validate_input_any_200(ip, answer) ==
    IF ip = "" \/ ~IsIPv4(ip) THEN "InvalidIP"
    ELSE IF answer \in {"200_list", "200_object", "200_text"} THEN "ok"
    ELSE "CannotConnect"

\* validate_input: the exception it raises, or "ok" when it returns the title
validate_input(ip, answer) ==
    IF ip = "" \/ ~IsIPv4(ip) THEN "InvalidIP"
    ELSE IF answer = "200_list" THEN "ok"
    ELSE "CannotConnect"

\* requests to the controller made in a behaviour
MaxRequests == 2

\* ip_address values typed into the user form
FlowIps == {"10.0.0.2", "10.0.0.3", "", "10.0.0", "10.0.0.256", "010.0.0.3", "oelo.local"}

\* OeloLightsConfigFlow.async_step_user; the unique id of the configured
\* entry is its ip_address
StepUser ==
    \E user_input \in {None} \cup {Some(ip) : ip \in FlowIps}, answer \in Answers :
        LET ip      == user_input[1]
            outcome == validate_input(ip, answer)
            shown   == [flow EXCEPT !.step = "user", !.user_input = user_input,
                                    !.answer = answer, !.data = None, !.configured = flow.options]
        IN  /\ Len(requests) < MaxRequests
            /\ flow' =
                IF user_input = None
                THEN [shown EXCEPT !.result = "form", !.errors = None]
                ELSE IF outcome = "InvalidIP"
                THEN [shown EXCEPT !.result = "form", !.errors = Some("invalid_ip")]
                ELSE IF outcome = "CannotConnect"
                THEN [shown EXCEPT !.result = "form", !.errors = Some("cannot_connect")]
                ELSE IF ip = ip_address
                THEN [shown EXCEPT !.result = "abort", !.errors = None]
                ELSE [shown EXCEPT !.result = "create_entry", !.errors = None,
                                   !.data = Some([ip_address |-> ip])]
            /\ requests' = IF user_input # None /\ outcome # "InvalidIP"
                           THEN Append(requests, "http://" \o ip \o "/getController")
                           ELSE requests
            /\ UNCHANGED <<storeVars, svcVars, util, light>>

\* options an entry may hold: those of this version, or none of them
StoredOptions == {EntryOptions, <<>>}

\* the options form as submitted: any of max_leds and spotlight_plan_lights
OptionsInputs ==
    {<<>>}
    \cup [max_leds : 1..MaxLeds]
    \cup [spotlight_plan_lights : LedStrings]
    \cup [max_leds : 1..MaxLeds, spotlight_plan_lights : LedStrings]

\* OeloLightsOptionsFlowHandler.async_step_init.  With spotlight_plan_lights
\* in user_input the step evaluates options.get(CONF_MAX_LEDS, ...) as the
\* default of user_input.get; options is a local name of the function that is
\* bound only after the "if user_input is not None" block, so the evaluation
\* raises UnboundLocalError, whether or not max_leds was submitted.  Without
\* that key the step creates the options entry from user_input.
StepInit ==
    \E user_input \in {None} \cup {Some(u) : u \in OptionsInputs} :
        LET shown == [flow EXCEPT !.step = "init", !.user_input = user_input,
                                  !.answer = "none", !.errors = None, !.data = None,
                                  !.configured = flow.options]
        IN  /\ flow' =
                IF user_input = None
                THEN [shown EXCEPT !.result = "form"]
                ELSE IF "spotlight_plan_lights" \in DOMAIN user_input[1]
                THEN [shown EXCEPT !.result = "raise"]
                ELSE [shown EXCEPT !.result = "create_entry", !.data = user_input,
                                   !.options = user_input[1]]
            /\ UNCHANGED <<storeVars, svcVars, util, requests, light>>

InitFlow ==
    /\ _patterns = <<>>
    /\ disk = None
    /\ call = NoCall
    /\ pre = [mem |-> <<>>, disk |-> None]
    /\ tasks = <<>>
    /\ last = 0
    /\ _cached_patterns = <<>>
    /\ reloads = 0
    /\ handled = 0
    /\ util = NoUtil
    /\ flow \in {[NoFlow EXCEPT !.options = o, !.configured = o] : o \in StoredOptions}
    /\ requests = <<>>
    /\ light = NoLight

NextFlow ==
    \/ StepUser
    \/ StepInit

SpecFlow == InitFlow /\ [][NextFlow]_vars

(***************************************************************************)
(* The validation of the services and of the config flow.  A behaviour     *)
(* runs a config flow for a controller or calls services of the entry that *)
(* is set up; the two share no state.                                      *)
(***************************************************************************)

\* service calls made in a behaviour of SpecFront
MaxFrontCalls == 1

ServiceNames == {"capture", "apply", "rename", "delete", "list"}

\* a service called with entity_id "": every handler raises
\* HomeAssistantError("entity_id is required") as its first check
CallWithoutEntity ==
    \E svc \in ServiceNames :
        Start([NoTask EXCEPT !.svc = svc, !.entity_id = "", !.seen = DocPatterns(disk),
                             !.pc = "done", !.result = "error"])

FrontCall ==
    /\ flow.step = "none"
    /\ Len(tasks) < MaxFrontCalls
    /\ \/ CallWithoutEntity
       \/ CallRename
       \/ CallDelete
       \/ CallApply

FrontFlow ==
    /\ tasks = <<>>
    /\ StepUser

NextFront ==
    \/ FrontCall
    \/ FrontFlow
    \/ \E t \in Calls : ApplyGet(t)
    \/ \E t \in Calls : StoreLoad(t)
    \/ \E t \in Calls : StoreSave(t)
    \/ \E t \in Calls : Return(t)

SpecFront == InitSvc /\ [][NextFront]_vars

(***************************************************************************)
(* Properties of the validation (under SpecFront) and of the options flow  *)
(* (under SpecFlow)                                                        *)
(***************************************************************************)

\* the arguments of a service call that the handlers reject
InvalidArguments(T) ==
    \/ T.entity_id = ""
    \/ T.svc \in {"apply", "rename", "delete"} /\ ~Truthy(T.pattern_id) /\ ~Truthy(T.pattern_name)
    \/ T.svc = "rename" /\ T.new_name = ""

\* C23: a service call with an empty entity_id, an apply, rename or delete
\* call with neither id nor name, and a rename call with an empty new name
\* end in an error in the step that makes the call, which leaves the store
\* and the document as they are and asks the controller for nothing; the user
\* step creates an entry only for a valid IP whose controller answered 200
\* with a JSON list, shows invalid_ip for an invalid IP and cannot_connect
\* for a valid IP with any other answer
C23_ValidationErrors ==
    /\ [][Len(tasks') = Len(tasks) + 1 /\ InvalidArguments(tasks'[Len(tasks')]) =>
            /\ tasks'[Len(tasks')].pc = "done"
            /\ tasks'[Len(tasks')].result = "error"
            /\ disk' = disk
            /\ _patterns' = _patterns
            /\ requests' = requests
            /\ reloads' = reloads]_vars
    /\ [](flow.step = "user" /\ flow.user_input # None =>
            LET ip    == flow.user_input[1]
                valid == ip # "" /\ IsIPv4(ip)
            IN  /\ flow.result = "create_entry" => valid /\ flow.answer = "200_list"
                /\ ~valid => flow.result = "form" /\ flow.errors = Some("invalid_ip")
                /\ valid /\ flow.answer # "200_list" =>
                      flow.result = "form" /\ flow.errors = Some("cannot_connect"))

\* a rename without a new name has ended in an error next to a stored
\* document
C23_Witness ==
    /\ disk # None
    /\ \E t \in Calls :
        /\ tasks[t].svc = "rename"
        /\ Truthy(tasks[t].pattern_id)
        /\ tasks[t].new_name = ""
        /\ tasks[t].pc = "done"
        /\ tasks[t].result = "error"

\* C30: an options form submitted with a spotlight_plan_lights value creates
\* the options entry, whose spotlight_plan_lights is normalize_led_indices of
\* the submitted value against the submitted max_leds or, without one, the
\* configured max_leds
C30_OptionsNormalized ==
    (/\ flow.step = "init"
     /\ flow.user_input # None
     /\ "spotlight_plan_lights" \in DOMAIN flow.user_input[1]) =>
        LET user_input == flow.user_input[1]
            max_leds   == Get(user_input, "max_leds",
                              Get(flow.configured, "max_leds", DEFAULT_MAX_LEDS))
        IN  /\ flow.result = "create_entry"
            /\ flow.data # None
            /\ flow.data[1].spotlight_plan_lights
                 = normalize_led_indices(user_input.spotlight_plan_lights, max_leds)

(***************************************************************************)
(* light.py: OeloLight, the entity of zone 1, with the commands it takes   *)
(* and its command buffer.  A turn_on or turn_off call runs to its first   *)
(* await in one step: the await of Store.async_save in                     *)
(* _save_last_command_to_store, or the await of its future in              *)
(* _buffered_send_request.  light.futures holds the state of every future  *)
(* _buffered_send_request created, light.debounce the _debounce_and_send   *)
(* tasks, light.callers the calls, light.sent the URLs whose request was   *)
(* started.  Brightness stays at 255, so the brightness factor is 1.       *)
(***************************************************************************)

\* turn_on and turn_off calls made in a behaviour
MaxCommands == 2

\* self._zone
LightZone == 1

\* urllib.parse.urlencode of a dict given as its items in order
RECURSIVE UrlEncodePairs(_)
UrlEncodePairs(pairs) ==
    IF Len(pairs) = 0 THEN ""
    ELSE pairs[1][1] \o "=" \o QuotePlus(pairs[1][2])
         \o (IF Len(pairs) > 1 THEN "&" ELSE "") \o UrlEncodePairs(Tail(pairs))

\* the setPattern URL of the url_params dicts async_turn_on and
\* async_turn_off write out
CommandUrl(patternType, colors) ==
    "http://" \o ip_address \o "/setPattern?"
    \o UrlEncodePairs(<< <<"patternType", patternType>>, <<"num_zones", "1">>,
                         <<"zones", ToString(LightZone)>>, <<"num_colors", "1">>,
                         <<"colors", colors>>, <<"direction", "F">>, <<"speed", "0">>,
                         <<"gap", "0">>, <<"other", "0">>, <<"pause", "0">> >>)

\* ','.join(map(str, rgb))
RgbString(rgb) == ToString(rgb[1]) \o "," \o ToString(rgb[2]) \o "," \o ToString(rgb[3])

White == <<255, 255, 255>>

\* _adjust_colors_in_url(url, 1.0): the colour tokens that are digits,
\* clamped, written back into the query
_adjust_colors_in_url(url) ==
    LET query   == QueryOf(url)
        has     == "colors" \in QueryKeys(query) /\ Param(query, "colors") # ""
        parts   == Split(Param(query, "colors"), ",")
        numeric == SelectSeq([i \in 1..Len(parts) |-> Strip(parts[i])], AllDigits)
        colors  == JoinComma([i \in 1..Len(numeric) |-> ToString(Clamp(DigitsVal(numeric[i])))])
    IN  IF ~has \/ Len(numeric) = 0 THEN url
        ELSE "http://" \o ip_address \o "/setPattern?"
             \o UrlEncodePairs([i \in 1..Len(query) |->
                                   IF query[i][1] = "colors" THEN <<"colors", colors>>
                                   ELSE query[i]])

\* _extract_first_color_from_url: the first three colour values, clamped,
\* or None (the empty tuple here)
_extract_first_color_from_url(url) ==
    LET query == QueryOf(url)
        has   == "colors" \in QueryKeys(query) /\ Param(query, "colors") # ""
        parts == Split(Param(query, "colors"), ",")
    IN  IF has /\ Len(parts) >= 3 /\ \A i \in 1..3 : IsIntLit(parts[i])
        THEN [i \in 1..3 |-> Clamp(IntOf(parts[i]))]
        ELSE <<>>

\* the RGB async_turn_on reads off a stored pattern
PatternRgb(pattern) ==
    LET parts == Split(pattern.url_params.colors, ",")
    IN  IF pattern.url_params.colors # "" /\ Len(parts) >= 3
           /\ \A i \in 1..3 : IsIntLit(parts[i])
        THEN [i \in 1..3 |-> IntOf(parts[i])]
        ELSE White

\* index of the first cached pattern of that name, 0 when there is none
FindCached(name) ==
    LET hits == {i \in 1..Len(_cached_patterns) : _cached_patterns[i].name = name}
    IN  IF hits = {} THEN 0 ELSE First(hits)

\* index of the first cached pattern of that patternType, 0 when there is none
FindCachedType(patternType) ==
    LET hits == {i \in 1..Len(_cached_patterns) :
                    _cached_patterns[i].url_params.patternType = patternType}
    IN  IF hits = {} THEN 0 ELSE First(hits)

\* build_pattern_url as the entity calls it, with the entry's options
LightBuild(pattern) ==
    build_pattern_url(pattern, LightZone, ip_address,
                      Some(normalize_led_indices(EntryOptions.spotlight_plan_lights,
                                                 EntryOptions.max_leds)),
                      EntryOptions.max_leds)

\* keyword arguments of turn_on: none, an RGB colour, or an effect
LightKwargs ==
    {[kind |-> "none"], [kind |-> "rgb", rgb_color |-> <<10, 20, 30>>]}
    \cup [kind : {"effect"}, effect : {IdMarch, "nosuch"}]

\* the replay branch of async_turn_on (entity off, no arguments): the cached
\* pattern of the intended effect, 0 when there is none
StoredEffect ==
    IF Truthy(light._intended_effect) THEN FindCached(light._intended_effect[1]) ELSE 0

\* the branch replays the last successful command
ReplaysLast == StoredEffect = 0 /\ Truthy(light._last_successful_command)

\* lsc_pattern_type
LastPatternType ==
    IF "patternType" \in QueryKeys(QueryOf(light._last_successful_command[1]))
    THEN Param(QueryOf(light._last_successful_command[1]), "patternType")
    ELSE ""

\* effect_to_set after the replay of the last successful command
LastEffect ==
    IF LastPatternType = "off" THEN None
    ELSE IF LastPatternType = "custom" \/ FindCachedType(LastPatternType) = 0 THEN None
    ELSE Some(_cached_patterns[FindCachedType(LastPatternType)].name)

\* rgb_to_set after the replay of the last successful command
LastRgb ==
    IF _extract_first_color_from_url(light._last_successful_command[1]) # <<>>
    THEN _extract_first_color_from_url(light._last_successful_command[1])
    ELSE light._rgb_color

\* async_turn_on returns (or raises) before it changes the entity
Stops == [ret |-> TRUE, url |-> None, base |-> None, effect |-> None, rgb |-> White]

\* the plan that sends the adjusted base command
Sends(base, effect, rgb) ==
    [ret |-> FALSE, url |-> Some(_adjust_colors_in_url(base)), base |-> Some(base),
     effect |-> effect, rgb |-> rgb]

\* the plan for an RGB colour, and the fallback to solid white
Colour(rgb) ==
    [ret |-> FALSE, url |-> Some(CommandUrl("custom", RgbString(rgb))),
     base |-> Some(CommandUrl("custom", RgbString(rgb))), effect |-> None, rgb |-> rgb]

\* the plan for the cached pattern i under the effect name
Effect(i, name) ==
    IF LightBuild(_cached_patterns[i]).raises THEN Stops
    ELSE Sends(LightBuild(_cached_patterns[i]).url, name, PatternRgb(_cached_patterns[i]))

\* async_turn_on up to "self._state = True": whether it returns before
\* that, and url_to_send, base_command_for_lsc, effect_to_set, rgb_to_set
TurnOnPlan(kwargs) ==
    IF ~light._attr_available /\ ~light._state THEN Stops
    ELSE IF kwargs.kind = "rgb"
    THEN Colour([i \in 1..3 |-> Clamp(kwargs.rgb_color[i])])
    ELSE IF kwargs.kind = "effect"
    THEN (IF FindCached(kwargs.effect) = 0 THEN Stops
          ELSE Effect(FindCached(kwargs.effect), Some(kwargs.effect)))
    ELSE IF light._state
    THEN [ret |-> FALSE, url |-> None, base |-> None,
          effect |-> light._intended_effect, rgb |-> light._rgb_color]
    ELSE IF StoredEffect # 0 THEN Effect(StoredEffect, light._intended_effect)
    ELSE IF ReplaysLast THEN Sends(light._last_successful_command[1], LastEffect, LastRgb)
    ELSE Colour(White)

NoCaller ==
    [cmd |-> "none", kwargs |-> [kind |-> "none"], url |-> None, base |-> None,
     pc |-> "done", future |-> 0, outcome |-> "returned", sent_before |-> 0]

\* a buffer that leaves the future of the superseded call alone
_buffered_send_request_keeps_future(L, c, url) ==
    LET task    == L._debounce_task
        future  == L._pending_command_future
        tasks1  == IF task # 0 /\ L.debounce[task].pc \in {"sleeping", "sending"}
                   THEN [L.debounce EXCEPT ![task].pc = "cancelled"] ELSE L.debounce
    IN  [L EXCEPT !.debounce = Append(tasks1, [pc |-> "sleeping", url |-> "", future |-> 0]),
                  !.futures = Append(L.futures, "pending"),
                  !._pending_command_url = Some(url),
                  !._pending_command_future = Len(L.futures) + 1,
                  !._debounce_task = Len(L.debounce) + 1,
                  !.callers[c].future = Len(L.futures) + 1,
                  !.callers[c].pc = "waiting"]

\* _buffered_send_request(url) of call c up to "await current_call_future":
\* cancels the debounce task and the pending future that are not done, then
\* sets the pending URL, a new future and a new debounce task
_buffered_send_request(L, c, url) ==
    LET task    == L._debounce_task
        future  == L._pending_command_future
        tasks1  == IF task # 0 /\ L.debounce[task].pc \in {"sleeping", "sending"}
                   THEN [L.debounce EXCEPT ![task].pc = "cancelled"] ELSE L.debounce
        futures1 == IF future # 0 /\ L.futures[future] = "pending"
                    THEN [L.futures EXCEPT ![future] = "cancelled"] ELSE L.futures
    IN  [L EXCEPT !.debounce = Append(tasks1, [pc |-> "sleeping", url |-> "", future |-> 0]),
                  !.futures = Append(futures1, "pending"),
                  !._pending_command_url = Some(url),
                  !._pending_command_future = Len(L.futures) + 1,
                  !._debounce_task = Len(L.debounce) + 1,
                  !.callers[c].future = Len(L.futures) + 1,
                  !.callers[c].pc = "waiting"]

\* the call returns without a request: "Turn on called, no URL generated"
NoUrl(L, c) ==
    [L EXCEPT !._attr_available = TRUE, !.callers[c].pc = "done"]

lightFrame == <<storeVars, svcVars, util, flow, requests>>

\* the call as async_turn_on or async_turn_off starts it
NewCaller(cmd, kwargs) ==
    [NoCaller EXCEPT !.cmd = cmd, !.kwargs = kwargs, !.sent_before = Len(light.sent)]

\* the entity after the optimistic update of async_turn_on and the
\* assignment of the last successful command, the call at its save
TurnedOn(kwargs, plan) ==
    [light EXCEPT !._state = TRUE, !._rgb_color = plan.rgb,
                  !._intended_effect = plan.effect,
                  !._last_successful_command = plan.base,
                  !.callers = Append(light.callers,
                                     [NewCaller("turn_on", kwargs) EXCEPT
                                         !.url = plan.url, !.base = plan.base,
                                         !.pc = "saving"])]

\* async_turn_on(**kwargs) up to its first await: the save of the last
\* successful command when that changes, else the buffer
TurnOnWith(kwargs, plan) ==
    IF plan.ret
    THEN [light EXCEPT !.callers = Append(light.callers, NewCaller("turn_on", kwargs))]
    ELSE IF plan.base # light._last_successful_command THEN TurnedOn(kwargs, plan)
    ELSE IF plan.url # None
    THEN _buffered_send_request(TurnedOn(kwargs, plan), Len(light.callers) + 1, plan.url[1])
    ELSE NoUrl(TurnedOn(kwargs, plan), Len(light.callers) + 1)

TurnOn ==
    \E kwargs \in LightKwargs :
        /\ Len(light.callers) < MaxCommands
        /\ light.removal = "none"
        /\ light' = TurnOnWith(kwargs, TurnOnPlan(kwargs))
        /\ UNCHANGED lightFrame

\* async_turn_on of call c after _save_last_command_to_store
TurnOnSaved(c) ==
    /\ light.callers[c].pc = "saving"
    /\ light' = IF light.callers[c].url # None
                THEN _buffered_send_request(light, c, light.callers[c].url[1])
                ELSE NoUrl(light, c)
    /\ UNCHANGED lightFrame

\* the entity after the optimistic update of async_turn_off
TurnedOff(url) ==
    [light EXCEPT !._state = FALSE,
                  !.callers = Append(light.callers,
                                     [NewCaller("turn_off", [kind |-> "none"]) EXCEPT
                                         !.url = Some(url)])]

\* async_turn_off up to its await of the buffer
TurnOff ==
    /\ Len(light.callers) < MaxCommands
    /\ light.removal = "none"
    /\ light' = IF ~light._state
                THEN [light EXCEPT !.callers =
                        Append(light.callers, NewCaller("turn_off", [kind |-> "none"]))]
                ELSE _buffered_send_request(TurnedOff(CommandUrl("off", "0,0,0")),
                                            Len(light.callers) + 1, CommandUrl("off", "0,0,0"))
    /\ UNCHANGED lightFrame

\* _debounce_and_send of task t after its sleep: it returns when the pending
\* future is cancelled or done, else it starts the request for the pending URL
DebounceWake(t) ==
    LET future == light._pending_command_future
    IN  /\ light.debounce[t].pc = "sleeping"
        /\ light' =
            IF light._pending_command_url = None \/ future = 0
               \/ light.futures[future] # "pending"
            THEN [light EXCEPT !.debounce[t].pc = "done"]
            ELSE [light EXCEPT !.debounce[t] =
                                    [pc |-> "sending", url |-> light._pending_command_url[1],
                                     future |-> future],
                               !.sent = Append(light.sent, light._pending_command_url[1])]
        /\ UNCHANGED lightFrame

\* _send_request of task t returns True or False (every failure, the timeout
\* included, is caught and returned as False), and the task resolves the
\* future it read if that is not done
SendReturns(t) ==
    \E send_result \in BOOLEAN :
        LET future == light.debounce[t].future
        IN  /\ light.debounce[t].pc = "sending"
            /\ light' = [light EXCEPT
                            !.debounce[t].pc = "done",
                            !.futures[future] =
                                IF light.futures[future] = "pending"
                                THEN (IF send_result THEN "true" ELSE "false")
                                ELSE light.futures[future]]
            /\ UNCHANGED lightFrame

\* the call c resumes from "await current_call_future": with the result it
\* sets the availability, with CancelledError it leaves it
Resume(c) ==
    LET state == light.futures[light.callers[c].future]
    IN  /\ light.callers[c].pc = "waiting"
        /\ state # "pending"
        /\ light' = [light EXCEPT !.callers[c].pc = "done",
                                  !.callers[c].outcome = state,
                                  !._attr_available =
                                      IF state = "true" THEN TRUE
                                      ELSE IF state = "false" THEN FALSE
                                      ELSE light._attr_available]
        /\ UNCHANGED lightFrame

\* the pending future, cancelled if it is not done
CancelPending(L) ==
    IF L._pending_command_future # 0 /\ L.futures[L._pending_command_future] = "pending"
    THEN [L EXCEPT !.futures[L._pending_command_future] = "cancelled"]
    ELSE L

\* async_will_remove_from_hass up to its await of the cancelled debounce
\* task, or to its end when no task is running
Remove ==
    LET task == light._debounce_task
    IN  /\ light.removal = "none"
        /\ light' = IF task # 0 /\ light.debounce[task].pc \in {"sleeping", "sending"}
                    THEN [light EXCEPT !.debounce[task].pc = "cancelled",
                                       !.removal = "awaiting"]
                    ELSE [CancelPending(light) EXCEPT !.removal = "done"]
        /\ UNCHANGED lightFrame

\* async_will_remove_from_hass after "await self._debounce_task"
RemoveResumes ==
    /\ light.removal = "awaiting"
    /\ light' = [CancelPending(light) EXCEPT !.removal = "done"]
    /\ UNCHANGED lightFrame

\* the entity is added with the patterns of the document in its cache
InitLight ==
    /\ disk = async_save(InitialPatterns)
    /\ _patterns = InitialPatterns
    /\ _cached_patterns = InitialPatterns
    /\ call = NoCall
    /\ pre = [mem |-> <<>>, disk |-> None]
    /\ tasks = <<>>
    /\ last = 0
    /\ reloads = 0
    /\ handled = 0
    /\ util = NoUtil
    /\ InitEnv

\* the steps the event loop takes on its own
LightResumes ==
    \/ \E c \in 1..Len(light.callers) : TurnOnSaved(c)
    \/ \E t \in 1..Len(light.debounce) : DebounceWake(t)
    \/ \E t \in 1..Len(light.debounce) : SendReturns(t)
    \/ \E c \in 1..Len(light.callers) : Resume(c)
    \/ RemoveResumes

NextLight ==
    \/ TurnOn
    \/ TurnOff
    \/ Remove
    \/ LightResumes

SpecLight == InitLight /\ [][NextLight]_vars

\* the event loop runs what is ready: a save completes, a sleep ends, a
\* request returns or times out, a resolved future wakes its caller
SpecLightLive == SpecLight /\ WF_vars(LightResumes)

(***************************************************************************)
(* Properties of the entity (under SpecLight and SpecLightLive)            *)
(***************************************************************************)

LightQuiescent ==
    /\ \A c \in 1..Len(light.callers) : light.callers[c].pc = "done"
    /\ \A t \in 1..Len(light.debounce) : light.debounce[t].pc \in {"done", "cancelled"}

\* C27: when turn_on has issued a command and the next call, the last one,
\* is a turn_off made before that command was sent, the only URL sent since
\* the turn_on is the off command and the entity ends off
C27_LastWins ==
    (LightQuiescent /\ light.removal = "none") =>
        \A i \in 1..(Len(light.callers) - 1) :
            LET on  == light.callers[i]
                off == light.callers[i + 1]
            IN  (/\ i + 1 = Len(light.callers)
                 /\ on.cmd = "turn_on" /\ on.url # None
                 /\ off.cmd = "turn_off" /\ off.url # None
                 /\ off.sent_before = on.sent_before)
                => /\ SubSeq(light.sent, on.sent_before + 1, Len(light.sent)) = <<off.url[1]>>
                   /\ ~light._state

\* C28: no call waits in _buffered_send_request forever: whatever has
\* happened, a moment comes at which no call is waiting (the calls of a
\* behaviour are finitely many, so this says that each of them completes),
\* and a call that has left the buffer has the result of the send or a
\* cancellation
C28_BufferedSendCompletes ==
    /\ []<>(\A c \in 1..Len(light.callers) : light.callers[c].pc # "waiting")
    /\ [](\A c \in 1..Len(light.callers) :
            (light.callers[c].future # 0 /\ light.callers[c].pc = "done")
                => light.callers[c].outcome \in {"true", "false", "cancelled"})

\* a call superseded while its request was in progress has ended with a
\* cancellation and the call that superseded it with the result of its send
C28_Witness ==
    \E c, d \in 1..Len(light.callers) :
        /\ light.callers[c].pc = "done" /\ light.callers[c].outcome = "cancelled"
        /\ light.callers[d].pc = "done" /\ light.callers[d].outcome = "false"
        /\ \E t \in 1..Len(light.debounce) :
            /\ light.debounce[t].pc = "cancelled"
            /\ light.debounce[t].future = light.callers[c].future

\* C29: the last command a turn_on with a colour or an effect recorded is
\* kept while only turn_on() without arguments and turn_off() follow
C29_LastCommandKept ==
    \A i \in 1..Len(light.callers) :
        (/\ light.callers[i].cmd = "turn_on"
         /\ light.callers[i].kwargs.kind \in {"rgb", "effect"}
         /\ light.callers[i].base # None
         /\ \A j \in (i + 1)..Len(light.callers) : light.callers[j].kwargs.kind = "none")
        => light._last_successful_command = light.callers[i].base
====
